---- MODULE Spec2Model ----
(***************************************************************************)
(* The NFT mint flow of the mini-app template: the pure reducer of         *)
(* src/lib/mint-reducer.ts and the component that drives it,               *)
(* src/components/nft-mint-button.tsx (wallet hooks, detection pass,       *)
(* price discovery, approval and mint handlers, transaction effect).       *)
(*                                                                         *)
(* Optional JavaScript values (undefined / null) are sequences of length   *)
(* at most one: None is <<>>, Some(v) is <<v>>.                            *)
(***************************************************************************)
EXTENDS Integers, Sequences, FiniteSets, TLC

\* ------------------------------------------------------------------ bounds
\* Largest claim cost and largest on-chain allowance considered.
MaxCost == 2
\* Largest number of detection passes in flight at the same time.
MaxInFlight == 2
\* Longest list of extensions a contract answers with.
MaxExtensions == 2
MaxFragments == 2

\* ------------------------------------------------------- optional values
None == <<>>
Some(v) == <<v>>
Get(o) == o[1]
IsSome(o) == o # <<>>

\* ------------------------------------------------------------ the reducer
MintSteps ==
  {"initial", "detecting", "sheet", "connecting", "approve", "approving",
   "minting", "waiting", "success", "error", "validation-error"}

TransactionTypes == {"approval", "mint", "null"}

initialState ==
  [ step             |-> "initial",
    contractInfo     |-> None,
    priceData        |-> [mintPrice |-> None, totalCost |-> 0, erc20Details |-> None],
    error            |-> None,
    txHash           |-> None,
    txType           |-> "null",
    isLoading        |-> FALSE,
    validationErrors |-> <<>> ]

\* action constructors (MintAction)
DetectStart == [type |-> "DETECT_START"]
DetectSuccess(info, price) ==
  [type |-> "DETECT_SUCCESS", payload |-> [contractInfo |-> info, priceData |-> price]]
DetectError(msg) == [type |-> "DETECT_ERROR", payload |-> msg]
ValidationError(errs) == [type |-> "VALIDATION_ERROR", payload |-> errs]
ApproveRequired == [type |-> "APPROVE_REQUIRED"]
ApproveStart == [type |-> "APPROVE_START"]
ApproveTxSubmitted(h) == [type |-> "APPROVE_TX_SUBMITTED", payload |-> h]
ApproveSuccess == [type |-> "APPROVE_SUCCESS"]
ConnectStart == [type |-> "CONNECT_START"]
ConnectSuccess == [type |-> "CONNECT_SUCCESS"]
MintStart == [type |-> "MINT_START"]
MintTxSubmitted(h) == [type |-> "MINT_TX_SUBMITTED", payload |-> h]
TxSuccess(h) == [type |-> "TX_SUCCESS", payload |-> h]
TxError(msg) == [type |-> "TX_ERROR", payload |-> msg]
Reset == [type |-> "RESET"]
UpdateAllowance(a) == [type |-> "UPDATE_ALLOWANCE", payload |-> a]

\* variant: the comparison of line 67 taken as "not greater than"
DetectNeedsApprovalLax(payload) ==
  IF ~IsSome(payload.priceData.erc20Details) THEN None
  ELSE IF ~IsSome(Get(payload.contractInfo).claim) THEN None
  ELSE IF ~IsSome(Get(payload.priceData.erc20Details).allowance) THEN Some(FALSE)
  ELSE Some(Get(Get(payload.priceData.erc20Details).allowance)
              <= Get(Get(payload.contractInfo).claim).cost)

\* DETECT_SUCCESS: the value of the && chain of lines 64-67.  It is
\* undefined when erc20Details or the claim is missing, false when the
\* allowance is undefined, and the comparison otherwise.
DetectNeedsApproval(payload) ==
  IF ~IsSome(payload.priceData.erc20Details) THEN None
  ELSE IF ~IsSome(Get(payload.contractInfo).claim) THEN None
  ELSE IF ~IsSome(Get(payload.priceData.erc20Details).allowance) THEN Some(FALSE)
  ELSE Some(Get(Get(payload.priceData.erc20Details).allowance)
              < Get(Get(payload.contractInfo).claim).cost)

\* state.contractInfo?.claim?.cost || BigInt(0)
StoredClaimCost(s) ==
  IF IsSome(s.contractInfo) /\ IsSome(Get(s.contractInfo).claim)
  THEN Get(Get(s.contractInfo).claim).cost
  ELSE 0

\* { ...erc20Details, needsApproval } and { ...erc20Details, needsApproval,
\* allowance }: the display-only fields symbol, decimals and balance are
\* carried along unchanged by the spread and are not modelled.
WithApproval(e, needsApproval, allowance) ==
  [address |-> e.address, allowance |-> allowance, needsApproval |-> needsApproval]

ReduceDetectSuccess(s, a) ==
  LET needsApproval == DetectNeedsApproval(a.payload) IN
  [s EXCEPT
     !.step = IF needsApproval = Some(TRUE) THEN "approve" ELSE "sheet",
     !.contractInfo = a.payload.contractInfo,
     !.priceData =
        [mintPrice |-> a.payload.priceData.mintPrice,
         totalCost |-> a.payload.priceData.totalCost,
         erc20Details |->
            IF IsSome(a.payload.priceData.erc20Details)
            THEN Some(WithApproval(Get(a.payload.priceData.erc20Details), needsApproval,
                                   Get(a.payload.priceData.erc20Details).allowance))
            ELSE None],
     !.isLoading = FALSE]

\* variant: APPROVE_SUCCESS that keeps the hash of the approval
ReduceApproveSuccessKeepsHash(s) ==
  [s EXCEPT
     !.step = "sheet",
     !.isLoading = FALSE,
     !.txType = "null",
     !.priceData.erc20Details =
        IF IsSome(s.priceData.erc20Details)
        THEN Some(WithApproval(Get(s.priceData.erc20Details), Some(FALSE),
                               Some(StoredClaimCost(s))))
        ELSE None]

ReduceApproveSuccess(s) ==
  [s EXCEPT
     !.step = "sheet",
     !.isLoading = FALSE,
     !.txType = "null",
     !.txHash = None,
     !.priceData.erc20Details =
        IF IsSome(s.priceData.erc20Details)
        THEN Some(WithApproval(Get(s.priceData.erc20Details), Some(FALSE),
                               Some(StoredClaimCost(s))))
        ELSE None]

\* variant: TX_SUCCESS without the check of the transaction kind
ReduceTxSuccessAnyKind(s, a) ==
  [s EXCEPT !.step = "success", !.txHash = Some(a.payload),
            !.isLoading = FALSE, !.txType = "null"]

\* variant: TX_SUCCESS that forgets the kind of an approval transaction
ReduceTxSuccessClearsKind(s, a) ==
  IF s.txType = "mint"
  THEN [s EXCEPT !.step = "success", !.txHash = Some(a.payload),
                 !.isLoading = FALSE, !.txType = "null"]
  ELSE [s EXCEPT !.txType = "null"]

ReduceTxSuccess(s, a) ==
  IF s.txType = "mint"
  THEN [s EXCEPT !.step = "success", !.txHash = Some(a.payload),
                 !.isLoading = FALSE, !.txType = "null"]
  ELSE s

\* variant: TX_ERROR that keeps the transaction kind
ReduceTxErrorKeepsType(s, a) ==
  [s EXCEPT !.step = "error", !.error = Some(a.payload), !.isLoading = FALSE]

ReduceTxError(s, a) ==
  [s EXCEPT !.step = "error", !.error = Some(a.payload), !.isLoading = FALSE,
            !.txType = "null"]

\* variant: UPDATE_ALLOWANCE that also moves the session to "approve"
ReduceUpdateAllowanceToApprove(s, a) ==
  IF ~IsSome(s.priceData.erc20Details) THEN s
  ELSE
    LET updatedNeedsApproval ==
          IF IsSome(s.contractInfo) /\ IsSome(Get(s.contractInfo).claim)
          THEN a.payload < Get(Get(s.contractInfo).claim).cost
          ELSE FALSE
    IN [s EXCEPT !.step = IF updatedNeedsApproval THEN "approve" ELSE s.step,
                 !.priceData.erc20Details =
          Some(WithApproval(Get(s.priceData.erc20Details),
                            Some(updatedNeedsApproval), Some(a.payload)))]

ReduceUpdateAllowance(s, a) ==
  IF ~IsSome(s.priceData.erc20Details) THEN s
  ELSE
    LET updatedNeedsApproval ==
          IF IsSome(s.contractInfo) /\ IsSome(Get(s.contractInfo).claim)
          THEN a.payload < Get(Get(s.contractInfo).claim).cost
          ELSE FALSE
    IN [s EXCEPT !.priceData.erc20Details =
          Some(WithApproval(Get(s.priceData.erc20Details),
                            Some(updatedNeedsApproval), Some(a.payload)))]

\* variant: RESET that keeps the recorded transaction
ReduceResetKeepsTx(s) == [initialState EXCEPT !.txHash = s.txHash, !.txType = s.txType]

ReduceReset(s) == initialState

mintReducer(s, a) ==
  CASE a.type = "DETECT_START" ->
         [s EXCEPT !.step = "detecting", !.isLoading = TRUE, !.error = None]
    [] a.type = "DETECT_SUCCESS" -> ReduceDetectSuccess(s, a)
    [] a.type = "DETECT_ERROR" ->
         [s EXCEPT !.step = "error", !.error = Some(a.payload), !.isLoading = FALSE]
    [] a.type = "VALIDATION_ERROR" ->
         [s EXCEPT !.step = "validation-error", !.validationErrors = a.payload,
                   !.isLoading = FALSE]
    [] a.type = "APPROVE_REQUIRED" -> [s EXCEPT !.step = "approve"]
    [] a.type = "APPROVE_START" ->
         [s EXCEPT !.step = "approving", !.isLoading = TRUE, !.txType = "approval"]
    [] a.type = "APPROVE_TX_SUBMITTED" ->
         [s EXCEPT !.step = "waiting", !.txHash = Some(a.payload), !.txType = "approval"]
    [] a.type = "APPROVE_SUCCESS" -> ReduceApproveSuccess(s)
    [] a.type = "CONNECT_START" -> [s EXCEPT !.step = "connecting"]
    [] a.type = "CONNECT_SUCCESS" -> [s EXCEPT !.step = "sheet"]
    [] a.type = "MINT_START" ->
         [s EXCEPT !.step = "minting", !.isLoading = TRUE, !.txType = "mint"]
    [] a.type = "MINT_TX_SUBMITTED" ->
         [s EXCEPT !.step = "waiting", !.txHash = Some(a.payload), !.txType = "mint"]
    [] a.type = "TX_SUCCESS" -> ReduceTxSuccess(s, a)
    [] a.type = "TX_ERROR" -> ReduceTxError(s, a)
    [] a.type = "UPDATE_ALLOWANCE" -> ReduceUpdateAllowance(s, a)
    [] a.type = "RESET" -> ReduceReset(s)
    [] OTHER -> s


\* ------------------------------------------------------ contract standards
\* KNOWN_CONTRACTS.manifoldExtension
KnownManifoldExtension == "0x26BBEA7803DcAc346D5F5f135b57Cf2c752A02bE"
\* the zero address, the sign of a native-currency claim
ZeroAddress == "0x0000000000000000000000000000000000000000"
\* THIRDWEB_NATIVE_TOKEN
ThirdwebNativeToken == "0xEeeeeEeeeEeEeeEeEeEeeEEEeeeeEeeeeeeeEEeE"
\* the all-zero merkle root compared against in validateParameters
ZeroRoot == "0x0000000000000000000000000000000000000000000000000000000000000000"

\* Amounts of native currency are counted in units of 10^14 wei.
\* BigInt("500000000000000"), the default Manifold fee
DefaultManifoldFee == 5
\* BigInt("100000000000000"), the default NFTs2Me creator fee per NFT
CreatorFeePerNFT == 1
\* BigInt("100000000000000"), the default NFTs2Me protocol fee per NFT
ProtocolFeePerNFT == 1

\* PROVIDER_CONFIGS.generic.priceDiscovery.functionNames
GenericPriceFunctions == <<"mintPrice", "price", "MINT_PRICE", "getMintPrice">>

\* ------------------------------------------------------ provider detector
\* probes: what each remote call of one detection answers.
\*   erc721, erc1155 : "true" | "false" | "error"
\*   extensions      : None (call failed) or Some(sequence of addresses)
\*   n2mVersion      : None (call failed) or Some(version)
\*   claimCondition  : "error" | "pair" | "other"
\*   sharedMetadata  : TRUE when the call succeeds
ContractInfo(provider, is1155, is721, ext) ==
  [provider |-> provider, isERC1155 |-> is1155, isERC721 |-> is721,
   extensionAddress |-> ext, claim |-> None, claimCondition |-> None]

\* variant: the first returned extension, whatever the list holds
PickExtensionFirst(extensions) == extensions[1]

\* extensions.find(ext => known.includes(ext)) || extensions[0]
PickExtension(extensions) ==
  IF \E i \in 1..Len(extensions) : extensions[i] = KnownManifoldExtension
  THEN KnownManifoldExtension
  ELSE extensions[1]

\* variant: an ERC-165 probe that fails makes the detection fail
detectNFTProviderUnwrapped(params, probes) ==
  IF ~IsSome(params.provider) /\ "error" \in {probes.erc721, probes.erc1155}
  THEN [provider |-> "failed"]
  ELSE ContractInfo("generic", probes.erc1155 = "true", probes.erc721 = "true", None)

\* variant: thirdweb needs the sharedMetadata read to succeed as well
detectNFTProviderCorroborated(params, probes) ==
  IF IsSome(params.provider)
  THEN IF Get(params.provider) = "manifold"
       THEN ContractInfo("manifold", TRUE, FALSE, Some(KnownManifoldExtension))
       ELSE ContractInfo(Get(params.provider), FALSE, FALSE, None)
  ELSE
    LET isERC721 == probes.erc721 = "true"
        isERC1155 == probes.erc1155 = "true"
    IN IF IsSome(probes.extensions) /\ Len(Get(probes.extensions)) > 0
       THEN ContractInfo("manifold", isERC1155, isERC721,
                         Some(PickExtension(Get(probes.extensions))))
       ELSE IF IsSome(probes.n2mVersion)
       THEN ContractInfo("nfts2me", isERC1155, isERC721, None)
       ELSE IF probes.claimCondition = "pair" /\ probes.sharedMetadata
       THEN ContractInfo("thirdweb", isERC1155, isERC721, None)
       ELSE ContractInfo("generic", isERC1155, isERC721, None)

detectNFTProvider(params, probes) ==
  IF IsSome(params.provider)
  THEN IF Get(params.provider) = "manifold"
       THEN ContractInfo("manifold", TRUE, FALSE, Some(KnownManifoldExtension))
       ELSE ContractInfo(Get(params.provider), FALSE, FALSE, None)
  ELSE
    LET isERC721 == probes.erc721 = "true"
        isERC1155 == probes.erc1155 = "true"
    IN IF IsSome(probes.extensions) /\ Len(Get(probes.extensions)) > 0
       THEN ContractInfo("manifold", isERC1155, isERC721,
                         Some(PickExtension(Get(probes.extensions))))
       ELSE IF IsSome(probes.n2mVersion)
       THEN ContractInfo("nfts2me", isERC1155, isERC721, None)
       ELSE IF probes.claimCondition = "pair"
       THEN ContractInfo("thirdweb", isERC1155, isERC721, None)
       ELSE ContractInfo("generic", isERC1155, isERC721, None)

\* ----------------------------------------------------- validateParameters
ErrManifoldIds ==
  "Manifold NFTs require either instanceId or tokenId. Check the claim page URL for (e.g., /instance/123456) use getClaimForToken to find a specific"
ErrInvalidInstanceId == "Invalid instanceId format. Must be a positive integer."
ErrMerkle == "This NFT requires a merkle proof for minting - not supported yet"
ErrNotStarted == "Claim has not started yet"

\* parseInt on the instance identifiers the model draws from: None is NaN.
ParseInt(str) ==
  CASE str = "1" -> Some(1)
    [] str = "2" -> Some(2)
    [] str = "-1" -> Some(-1)
    [] OTHER -> None

\* PROVIDER_CONFIGS[provider].requiredParams, the same list for every provider
RequiredParams == <<"contractAddress", "chainId">>

\* variant: only the required parameters of the catalog are checked
validateParametersRequiredOnly(params, contractInfo, now) ==
  LET missingRequired == SelectSeq(RequiredParams, LAMBDA p : ~IsSome(params[p]))
  IN [isValid |-> Len(missingRequired) = 0,
      missingParams |-> missingRequired,
      errors |-> <<>>]

validateParameters(params, contractInfo, now) ==
  LET missingRequired == SelectSeq(RequiredParams, LAMBDA p : ~IsSome(params[p]))
      manifold == contractInfo.provider = "manifold"
      noIds == manifold /\ ~IsSome(params.instanceId) /\ ~IsSome(params.tokenId)
      badInstance == manifold /\ IsSome(params.instanceId)
                     /\ (~IsSome(ParseInt(Get(params.instanceId)))
                         \/ Get(ParseInt(Get(params.instanceId))) < 0)
      claimMerkle == manifold /\ IsSome(contractInfo.claim)
                     /\ Get(contractInfo.claim).merkleRoot # ZeroRoot
      thirdweb == contractInfo.provider = "thirdweb"
      condMerkle == thirdweb /\ IsSome(contractInfo.claimCondition)
                    /\ Get(contractInfo.claimCondition).merkleRoot # ZeroRoot
      notStarted == thirdweb /\ IsSome(contractInfo.claimCondition)
                    /\ Get(contractInfo.claimCondition).startTimestamp # 0
                    /\ now < Get(contractInfo.claimCondition).startTimestamp
      missingParams == missingRequired
                       \o (IF noIds THEN <<"instanceId or tokenId">> ELSE <<>>)
      errors == (IF noIds THEN <<ErrManifoldIds>> ELSE <<>>)
                \o (IF badInstance THEN <<ErrInvalidInstanceId>> ELSE <<>>)
                \o (IF claimMerkle THEN <<ErrMerkle>> ELSE <<>>)
                \o (IF condMerkle THEN <<ErrMerkle>> ELSE <<>>)
                \o (IF notStarted THEN <<ErrNotStarted>> ELSE <<>>)
  IN [isValid |-> Len(missingParams) = 0 /\ Len(errors) = 0,
      missingParams |-> missingParams,
      errors |-> errors]

\* ------------------------------------------------------- provider configs
\* PROVIDER_CONFIGS[provider].priceDiscovery.functionNames, with the generic
\* entry for an unknown provider (getProviderConfig)
PriceFunctionNames(provider) ==
  CASE provider = "manifold" -> <<"MINT_FEE">>
    [] provider = "opensea" -> <<"mintPrice", "price", "publicMintPrice">>
    [] provider = "zora" -> <<"mintPrice", "price">>
    [] provider = "nfts2me" -> <<"mintFee">>
    [] provider = "thirdweb" -> <<"claimCondition", "getClaimConditionById">>
    [] OTHER -> GenericPriceFunctions

\* params.amount || 1 (an absent amount is 0 here)
AmountOf(params) == IF params.amount = 0 THEN 1 ELSE params.amount

\* variant: the unit price taken as the total
calculateValueUnitPrice(provider, price, params) == price

\* mintConfig.calculateValue
calculateValue(provider, price, params) ==
  IF provider = "manifold" THEN price ELSE price * AmountOf(params)

\* --------------------------------------------------- price discovery engine
\* rpc: what each remote call of one price discovery answers (None: the call
\* fails).
\*   mintFee, mintFeeRetry : the MINT_FEE reads of the first attempt and of
\*                           the fallback
\*   claim          : getClaim, a claim response
\*   claimForToken  : getClaimForToken, [instanceId, claim]
\*   erc20Meta      : TRUE when symbol and decimals are read and valid
\*   allowance      : the ERC-20 allowance read
\*   prices         : the candidate price functions, by name
\*   n2mMintPrice, n2mFees : the NFTs2Me mintPrice and (mintFee, protocolFee)
\*   twClaimCondition, twCondition : the thirdweb claim-condition reads
\* A claim response is [shape, cost, merkleRoot, erc20], shape "ok" when it
\* passes the structure checks of lines 136-167.
Quote(mintPrice, erc20Details, totalCost, claim) ==
  [mintPrice |-> mintPrice, erc20Details |-> erc20Details,
   totalCost |-> totalCost, claim |-> claim]

Fetched(quote, contractInfo, params) ==
  [quote |-> quote, contractInfo |-> contractInfo, params |-> params]

OrZero(o) == IF IsSome(o) THEN Get(o) ELSE 0

\* variant: the allowance is zero when no recipient is known
ReadAllowanceOrZero(params, rpc) ==
  IF IsSome(params.recipient) /\ IsSome(rpc.allowance) THEN rpc.allowance ELSE Some(0)

\* params.recipient ? read.catch(() => 0) : undefined
ReadAllowance(params, rpc) ==
  IF IsSome(params.recipient)
  THEN (IF IsSome(rpc.allowance) THEN rpc.allowance ELSE Some(0))
  ELSE None

ReadBalance(params, rpc) ==
  IF IsSome(params.recipient)
  THEN (IF IsSome(rpc.balance) THEN rpc.balance ELSE Some(0))
  ELSE None

\* the catch block of lines 252-278
ManifoldFallback(contractInfo, params, rpc) ==
  IF IsSome(rpc.mintFeeRetry)
  THEN Fetched(Quote(rpc.mintFeeRetry, None, Get(rpc.mintFeeRetry), None),
               contractInfo, params)
  ELSE Fetched(Quote(None, None, DefaultManifoldFee, None), contractInfo, params)

ManifoldPrice(params, contractInfo, rpc) ==
  IF IsSome(params.instanceId) /\ ~IsSome(ParseInt(Get(params.instanceId)))
  THEN \* BigInt(params.instanceId) throws
       ManifoldFallback(contractInfo, params, rpc)
  ELSE
    LET fee == OrZero(rpc.mintFee)
        byToken == ~IsSome(params.instanceId) /\ IsSome(params.tokenId)
        claim == IF IsSome(params.instanceId) THEN rpc.claim
                 ELSE IF byToken /\ IsSome(rpc.claimForToken)
                 THEN Some(Get(rpc.claimForToken).claim)
                 ELSE None
        params2 == IF byToken /\ IsSome(rpc.claimForToken)
                   THEN [params EXCEPT !.instanceId = Some(Get(rpc.claimForToken).instanceId)]
                   ELSE params
    IN IF ~IsSome(claim)
       THEN Fetched(Quote(Some(fee), None, fee, None), contractInfo, params2)
       ELSE IF Get(claim).shape # "ok"
       THEN Fetched(Quote(Some(fee), None, fee, None), contractInfo, params2)
       ELSE
         LET stored == [cost |-> Get(claim).cost, merkleRoot |-> Get(claim).merkleRoot,
                        erc20 |-> Get(claim).erc20]
             info2 == [contractInfo EXCEPT !.claim = Some(stored)]
         IN IF stored.erc20 # ZeroAddress
            THEN IF ~rpc.erc20Meta
                 THEN ManifoldFallback(info2, params2, rpc)
                 ELSE Fetched(Quote(Some(fee),
                                    Some([address |-> stored.erc20,
                                          allowance |-> ReadAllowance(params2, rpc),
                                          balance |-> ReadBalance(params2, rpc)]),
                                    fee, Some(stored)),
                              info2, params2)
            ELSE Fetched(Quote(Some(fee), None, fee + stored.cost, Some(stored)),
                         info2, params2)

Nfts2mePrice(params, contractInfo, rpc) ==
  IF IsSome(rpc.n2mMintPrice)
  THEN Fetched(Quote(rpc.n2mMintPrice, None,
                     Get(rpc.n2mMintPrice) * AmountOf(params), None),
               contractInfo, params)
  ELSE IF IsSome(rpc.n2mFees)
  THEN Fetched(Quote(Some(Get(rpc.n2mFees).mintFee), None,
                     Get(rpc.n2mFees).mintFee
                       + Get(rpc.n2mFees).protocolFee * AmountOf(params), None),
               contractInfo, params)
  ELSE Fetched(Quote(Some(CreatorFeePerNFT * AmountOf(params)), None,
                     (CreatorFeePerNFT + ProtocolFeePerNFT) * AmountOf(params), None),
               contractInfo, params)

ThirdwebPrice(params, contractInfo, rpc) ==
  IF ~IsSome(rpc.twClaimCondition)
  THEN Fetched(Quote(None, None, 0, None), contractInfo, params)
  ELSE IF Get(rpc.twClaimCondition).count = 0
  THEN Fetched(Quote(Some(0), None, 0, None), contractInfo, params)
  ELSE IF ~IsSome(rpc.twCondition)
  THEN Fetched(Quote(None, None, 0, None), contractInfo, params)
  ELSE
    LET cond == Get(rpc.twCondition)
        info2 == [contractInfo EXCEPT !.claimCondition =
                    Some([id |-> Get(rpc.twClaimCondition).currentStartId
                                   + Get(rpc.twClaimCondition).count - 1,
                          pricePerToken |-> cond.pricePerToken,
                          currency |-> cond.currency,
                          merkleRoot |-> cond.merkleRoot,
                          startTimestamp |-> cond.startTimestamp])]
    IN IF cond.currency # ThirdwebNativeToken
       THEN IF ~rpc.erc20Meta
            THEN Fetched(Quote(None, None, 0, None), info2, params)
            ELSE Fetched(Quote(Some(cond.pricePerToken),
                               Some([address |-> cond.currency,
                                     allowance |-> ReadAllowance(params, rpc),
                                     balance |-> ReadBalance(params, rpc)]),
                               0, None),
                         info2, params)
       ELSE Fetched(Quote(Some(cond.pricePerToken), None,
                          cond.pricePerToken * AmountOf(params), None),
                    info2, params)

\* the loop of lines 497-523 from candidate i on
RECURSIVE TryPriceFunctions(_, _, _, _, _)
TryPriceFunctions(names, i, params, contractInfo, rpc) ==
  IF i > Len(names)
  THEN Fetched(Quote(Some(0), None, 0, None), contractInfo, params)
  ELSE IF IsSome(rpc.prices[names[i]])
  THEN Fetched(Quote(rpc.prices[names[i]], None,
                     calculateValue(contractInfo.provider,
                                    Get(rpc.prices[names[i]]), params), None),
               contractInfo, params)
  ELSE TryPriceFunctions(names, i + 1, params, contractInfo, rpc)

fetchPriceData(params, contractInfo, rpc) ==
  IF contractInfo.provider = "manifold" /\ IsSome(contractInfo.extensionAddress)
  THEN ManifoldPrice(params, contractInfo, rpc)
  ELSE IF contractInfo.provider = "nfts2me"
  THEN Nfts2mePrice(params, contractInfo, rpc)
  ELSE IF contractInfo.provider = "thirdweb"
  THEN ThirdwebPrice(params, contractInfo, rpc)
  ELSE TryPriceFunctions(PriceFunctionNames(contractInfo.provider), 1,
                         params, contractInfo, rpc)

\* ---------------------------------------------------------------- state
VARIABLES
  state,          \* the reducer state held by useReducer
  prev,           \* the reducer state before the last directly dispatched action
  last,           \* the last directly dispatched action (reducer harness)
  call,           \* the last library function called on its own: arguments and result
  contract,       \* the NFT contract on chain: provider convention and claim terms
  props,          \* the manifoldParams prop of the component
  mintParams,     \* the memoised MintParams object
  allowance,      \* on-chain ERC-20 allowance of the payer towards the spender
  isSheetOpen,    \* useState(false)
  isConnected,    \* useAccount().isConnected
  connecting,     \* a wallet connection attempt is under way
  walletChain,    \* useAccount().chain.id while connected
  write,          \* useWriteContract(): status, data, error and the request made
  receipt,        \* useWaitForTransactionReceipt({hash: writeData})
  effectPending,  \* the transaction effect has to run for the last render
  passes,         \* detectAndValidate calls in flight
  allowanceRead,  \* a checkAllowanceOnly read is in flight
  nextTx,         \* serial number of the last transaction hash handed out
  lastSend,       \* the last writeContract request and the conditions it was made in
  mintsOpen       \* mint transactions sent and not yet ended

vars ==
  <<state, prev, last, call, contract, props, mintParams, allowance, isSheetOpen,
    isConnected, connecting, walletChain, write, receipt, effectPending,
    passes, allowanceRead, nextTx, lastSend, mintsOpen>>

driverVars ==
  <<contract, props, mintParams, allowance, isSheetOpen, isConnected,
    connecting, walletChain, write, receipt, effectPending, passes,
    allowanceRead, nextTx, lastSend, mintsOpen>>

\* --------------------------------------------------------- the environment
\* chainId of the target network (findChainByName(network).id) and another
\* network the wallet may be on
TargetChain == 1
OtherChain == 8453
Chains == {TargetChain, OtherChain}

\* amount = 1, the default of the amount prop
Amount == 1

ContractAddress == "0xNFT"
PayerAddress == "0xPayer"
TokenAddress == "0xToken"
NonZeroRoot == "0xRoot"

\* The contracts a session may face: a Manifold claim, an ERC-20 priced
\* thirdweb edition and a plain contract with a native price.  fee is the flat MINT_FEE of the
\* extension, cost the price of one claim, erc20 whether the claim is paid
\* in an ERC-20 token, merkle whether the claim has a non-zero merkle root.
Contracts ==
  { [provider |-> "manifold", erc20 |-> e, merkle |-> m, cost |-> 1, fee |-> 1] :
      e \in BOOLEAN, m \in BOOLEAN }
  \cup
  { [provider |-> "thirdweb", erc20 |-> TRUE, merkle |-> FALSE, cost |-> 1, fee |-> 0],
    [provider |-> "generic", erc20 |-> FALSE, merkle |-> FALSE, cost |-> 1, fee |-> 0] }

PropsChoices ==
  { [instanceId |-> Some("1"), tokenId |-> None],
    [instanceId |-> None, tokenId |-> None] }

\* mintParams of lines 219-230
BuildMintParams(p, connected) ==
  [contractAddress |-> Some(ContractAddress), chainId |-> Some(TargetChain),
   provider |-> None, amount |-> Amount,
   instanceId |-> p.instanceId, tokenId |-> p.tokenId,
   recipient |-> IF connected THEN Some(PayerAddress) ELSE None]

\* What the contract answers to the probes of detectNFTProvider.  Here every
\* probe is answered; failing probes are examined with the detector alone.
ProbesOf(c) ==
  [erc721 |-> "true",
   erc1155 |-> "false",
   extensions |-> IF c.provider = "manifold" THEN Some(<<KnownManifoldExtension>>)
                  ELSE Some(<<>>),
   n2mVersion |-> IF c.provider = "nfts2me" THEN Some(1) ELSE None,
   claimCondition |-> IF c.provider = "thirdweb" THEN "pair" ELSE "error",
   sharedMetadata |-> c.provider = "thirdweb"]

\* How one price discovery may fare on the network.
NetOutcomes == {"ok", "claimFails", "metaFails", "allowanceFails"}

ClaimOf(c) ==
  [shape |-> "ok", cost |-> c.cost,
   merkleRoot |-> IF c.merkle THEN NonZeroRoot ELSE ZeroRoot,
   erc20 |-> IF c.erc20 THEN TokenAddress ELSE ZeroAddress]

AllPriceFunctions ==
  {"mintPrice", "price", "MINT_PRICE", "getMintPrice", "publicMintPrice",
   "MINT_FEE", "mintFee", "claimCondition", "getClaimConditionById"}

\* What the contract answers to the reads of fetchPriceData when the payer's
\* allowance is a and the network fares as net.
RpcOf(c, net, a) ==
  LET up == net # "allFail"
      claimUp == net \notin {"claimFails", "allFail"}
  IN [mintFee |-> IF up /\ c.provider = "manifold" THEN Some(c.fee) ELSE None,
      mintFeeRetry |-> IF up /\ c.provider = "manifold" THEN Some(c.fee) ELSE None,
      claim |-> IF claimUp /\ c.provider = "manifold" THEN Some(ClaimOf(c)) ELSE None,
      claimForToken |-> IF claimUp /\ c.provider = "manifold"
                        THEN Some([instanceId |-> "1", claim |-> ClaimOf(c)])
                        ELSE None,
      erc20Meta |-> net \notin {"metaFails", "allFail"},
      allowance |-> IF net \in {"allowanceFails", "allFail"} THEN None ELSE Some(a),
      balance |-> IF net \in {"allowanceFails", "allFail"} THEN None ELSE Some(c.cost),
      prices |-> [n \in AllPriceFunctions |->
                    IF up /\ c.provider = "generic" /\ n = "price"
                    THEN Some(c.cost) ELSE None],
      n2mMintPrice |-> IF up /\ c.provider = "nfts2me" THEN Some(c.cost) ELSE None,
      n2mFees |-> None,
      twClaimCondition |-> IF claimUp /\ c.provider = "thirdweb"
                           THEN Some([currentStartId |-> 0, count |-> 1]) ELSE None,
      twCondition |-> IF claimUp /\ c.provider = "thirdweb"
                      THEN Some([pricePerToken |-> c.cost,
                                 currency |-> IF c.erc20 THEN TokenAddress
                                              ELSE ThirdwebNativeToken,
                                 merkleRoot |-> IF c.merkle THEN NonZeroRoot ELSE ZeroRoot,
                                 startTimestamp |-> 0])
                      ELSE None]

\* ------------------------------------------------------ derived UI values
IdleWrite == [status |-> "idle", data |-> None, error |-> None, kind |-> "none", amount |-> 0]

\* chain?.id === chainId (line 247); chain is undefined while disconnected
isCorrectNetwork == isConnected /\ walletChain = TargetChain

isWritePending == write.status = "pending"

erc20DetailsOf(s) == s.priceData.erc20Details

\* isReadyToMint of lines 611-619
isReadyToMint ==
  /\ isConnected
  /\ IsSome(state.contractInfo)
  /\ ~state.isLoading
  /\ state.step = "sheet"
  /\ (~IsSome(erc20DetailsOf(state))
      \/ Get(erc20DetailsOf(state)).needsApproval # Some(TRUE))

\* variant: the main button without the network branch
SheetButtonOnClickAnyNetwork(connected, correctNetwork) ==
  IF ~connected THEN "handleConnectWallet" ELSE "handleMint"

\* onClick of the sheet's main button, lines 795-801
SheetButtonOnClick(connected, correctNetwork) ==
  IF ~connected THEN "handleConnectWallet"
  ELSE IF ~correctNetwork THEN "handleSwitchNetwork"
  ELSE "handleMint"

\* disabled of the sheet's main button, line 805
SheetButtonDisabled == isWritePending \/ (~isReadyToMint /\ isCorrectNetwork)

\* the main sheet content is rendered, line 741
SheetShown == isSheetOpen /\ state.step = "sheet" /\ IsSome(state.contractInfo)

\* spender of the approval and target of the mint, lines 463-466 and 516-519
SpenderOf(info) ==
  IF info.provider = "manifold" /\ IsSome(info.extensionAddress)
  THEN Get(info.extensionAddress)
  ELSE ContractAddress

\* ------------------------------------------------ the transaction effect
\* The dispatches of one run of the effect of lines 251-304, for the txType
\* of the render it belongs to.
EffectActions(txType, w, r) ==
  IF IsSome(w.error) /\ Get(w.error) = "user-rejected"
  THEN <<TxError("Transaction cancelled by user")>>
  ELSE
    (IF IsSome(w.error) THEN <<TxError("write failed")>> ELSE <<>>)
    \o (IF r = "error" THEN <<TxError("transaction failed")>> ELSE <<>>)
    \o (IF IsSome(w.data) /\ r # "success" /\ r # "error"
        THEN (IF txType = "approval" THEN <<ApproveTxSubmitted(Get(w.data))>>
              ELSE IF txType = "mint" THEN <<MintTxSubmitted(Get(w.data))>>
              ELSE <<>>)
        ELSE <<>>)
    \o (IF r = "success" /\ IsSome(w.data)
        THEN (IF txType = "approval" THEN <<ApproveSuccess>>
              ELSE IF txType = "mint" THEN <<TxSuccess(Get(w.data))>>
              ELSE <<>>)
        ELSE <<>>)

\* variant: the callback made for any confirmed transaction
OnMintSuccessCallsAnyKind(txType, w, r) ==
  IF IsSome(w.error) /\ Get(w.error) = "user-rejected" THEN <<>>
  ELSE IF r = "success" /\ IsSome(w.data) THEN <<Get(w.data)>>
  ELSE <<>>

\* The hashes handed to onMintSuccess by one run of the effect of lines
\* 251-304 (line 294), for the txType of the render it belongs to.
OnMintSuccessCalls(txType, w, r) ==
  IF IsSome(w.error) /\ Get(w.error) = "user-rejected" THEN <<>>
  ELSE IF r = "success" /\ IsSome(w.data) /\ txType = "mint" THEN <<Get(w.data)>>
  ELSE <<>>

\* dispatch of several actions in a row
RECURSIVE ReduceAll(_, _)
ReduceAll(s, acts) ==
  IF acts = <<>> THEN s ELSE ReduceAll(mintReducer(s, Head(acts)), Tail(acts))

\* a dispatched action that ends the mint transaction of the session
EndsMint(a) == a.type \in {"TX_SUCCESS", "TX_ERROR", "RESET"}

OpenAfter(open, acts) ==
  IF \E i \in 1..Len(acts) : EndsMint(acts[i]) THEN 0 ELSE open

\* variant: the effect without the receipt flags among its dependencies
EffectDueWithoutReceipt(oldType, oldWrite, oldReceipt, newType, newWrite, newReceipt) ==
  /\ <<oldType, oldWrite.data, oldWrite.error>> # <<newType, newWrite.data, newWrite.error>>
  /\ EffectActions(newType, newWrite, newReceipt) # <<>>

\* The effect has to run after a render in which one of its dependencies
\* (writeData, writeError, the receipt flags, txType) changed; a run that
\* dispatches nothing is not scheduled.
EffectDue(oldType, oldWrite, oldReceipt, newType, newWrite, newReceipt) ==
  /\ <<oldType, oldWrite.data, oldWrite.error, oldReceipt>>
       # <<newType, newWrite.data, newWrite.error, newReceipt>>
  /\ EffectActions(newType, newWrite, newReceipt) # <<>>

\* condition of the allowance re-check effect, lines 418-427
AllowanceCheckDue(s, connected) ==
  /\ connected
  /\ IsSome(s.contractInfo)
  /\ IsSome(erc20DetailsOf(s))
  /\ ~IsSome(Get(erc20DetailsOf(s)).allowance)

\* no library function has been called on its own
NoCall == [fn |-> "none"]

\* ------------------------------------------------------------ the driver
Init ==
  /\ state = initialState
  /\ prev = initialState
  /\ last = [type |-> "none"]
  /\ call = NoCall
  /\ contract \in Contracts
  /\ props \in PropsChoices
  /\ (contract.provider # "manifold" => props = [instanceId |-> None, tokenId |-> None])
  /\ allowance \in 0..MaxCost
  /\ (~contract.erc20 => allowance = 0)
  /\ isSheetOpen = FALSE
  /\ isConnected \in BOOLEAN
  /\ connecting \in BOOLEAN
  /\ (isConnected => ~connecting)
  /\ walletChain \in Chains
  /\ (~isConnected => walletChain = TargetChain)
  /\ mintParams = BuildMintParams(props, isConnected)
  /\ write = IdleWrite
  /\ receipt = "idle"
  /\ effectPending = FALSE
  /\ passes = <<>>
  /\ allowanceRead = FALSE
  /\ nextTx = 0
  /\ lastSend = [kind |-> "none", chain |-> TargetChain, covered |-> TRUE]
  /\ mintsOpen = 0

Remove(seq, i) == SubSeq(seq, 1, i - 1) \o SubSeq(seq, i + 1, Len(seq))

NewPass == [params |-> mintParams, stage |-> "detect", info |-> None]

\* handleInitialMint (lines 429-438) up to the first await of
\* detectAndValidate.  The trigger button is disabled while isLoading and
\* lies under the modal sheet while the sheet is open.
HandleInitialMint ==
  /\ ~effectPending
  /\ ~isSheetOpen
  /\ ~state.isLoading
  /\ Len(passes) < MaxInFlight
  /\ isSheetOpen' = TRUE
  /\ state' = mintReducer(state, DetectStart)
  /\ passes' = Append(passes, NewPass)
  /\ UNCHANGED <<prev, last, call, contract, props, mintParams, allowance, isConnected,
                 connecting, walletChain, write, receipt, effectPending,
                 allowanceRead, nextTx, lastSend, mintsOpen>>

\* detectAndValidate, lines 336-344: detectNFTProvider returns and the
\* parameters are validated.
DetectReturns(i) ==
  /\ ~effectPending
  /\ i \in 1..Len(passes)
  /\ passes[i].stage = "detect"
  /\ LET info == detectNFTProvider(passes[i].params, ProbesOf(contract))
         validation == validateParameters(passes[i].params, info, 0)
     IN IF ~validation.isValid
        THEN /\ state' = mintReducer(state, ValidationError(validation.errors))
             /\ passes' = Remove(passes, i)
        ELSE /\ state' = state
             /\ passes' = [passes EXCEPT ![i].stage = "price", ![i].info = Some(info)]
  /\ UNCHANGED <<prev, last, call, contract, props, mintParams, allowance, isSheetOpen,
                 isConnected, connecting, walletChain, write, receipt, effectPending,
                 allowanceRead, nextTx, lastSend, mintsOpen>>

\* detectAndValidate, lines 347-373: fetchPriceData returns, the claim is
\* copied into info and DETECT_SUCCESS is dispatched.  fetchPriceData writes
\* the back-filled instanceId into the params object, which is the memoised
\* mintParams unless the memo was rebuilt since the pass began.
PriceReturns(i) ==
  /\ ~effectPending
  /\ i \in 1..Len(passes)
  /\ passes[i].stage = "price"
  /\ \E net \in NetOutcomes :
       LET fetched == fetchPriceData(passes[i].params, Get(passes[i].info),
                                     RpcOf(contract, net, allowance))
           info == IF IsSome(fetched.quote.claim)
                   THEN [fetched.contractInfo EXCEPT !.claim = fetched.quote.claim]
                   ELSE fetched.contractInfo
           priceData == [mintPrice |-> fetched.quote.mintPrice,
                         totalCost |-> fetched.quote.totalCost,
                         erc20Details |-> fetched.quote.erc20Details]
       IN /\ state' = mintReducer(state, DetectSuccess(Some(info), priceData))
          /\ mintParams' = IF passes[i].params.recipient = mintParams.recipient
                           THEN [mintParams EXCEPT !.instanceId = fetched.params.instanceId]
                           ELSE mintParams
  /\ passes' = Remove(passes, i)
  /\ allowanceRead' = (allowanceRead \/ AllowanceCheckDue(state', isConnected))
  /\ UNCHANGED <<prev, last, call, contract, props, allowance, isSheetOpen, isConnected,
                 connecting, walletChain, write, receipt, effectPending,
                 nextTx, lastSend, mintsOpen>>

\* handleClose (lines 306-310): the Close and Done buttons, dismissal of the
\* sheet, and the timer of lines 313-320 once step is "success".
HandleClose ==
  /\ ~effectPending
  /\ isSheetOpen
  /\ isSheetOpen' = FALSE
  /\ state' = mintReducer(state, Reset)
  /\ mintsOpen' = OpenAfter(mintsOpen, <<Reset>>)
  /\ UNCHANGED <<prev, last, call, contract, props, mintParams, allowance, isConnected,
                 connecting, walletChain, write, receipt, effectPending, passes,
                 allowanceRead, nextTx, lastSend>>

\* handleRetry (lines 562-565), the Try Again button of the error step,
\* disabled while connected to the wrong network (line 1014).
HandleRetry ==
  /\ ~effectPending
  /\ isSheetOpen
  /\ state.step = "error"
  /\ ~(~isCorrectNetwork /\ isConnected)
  /\ Len(passes) < MaxInFlight
  /\ state' = ReduceAll(state, <<Reset, DetectStart>>)
  /\ passes' = Append(passes, NewPass)
  /\ mintsOpen' = OpenAfter(mintsOpen, <<Reset>>)
  /\ UNCHANGED <<prev, last, call, contract, props, mintParams, allowance, isSheetOpen,
                 isConnected, connecting, walletChain, write, receipt, effectPending,
                 allowanceRead, nextTx, lastSend>>

\* handleConnectWallet (lines 440-448), reached from the sheet's main button
\* while no wallet is connected.
HandleConnectWallet ==
  /\ ~effectPending
  /\ SheetShown
  /\ ~SheetButtonDisabled
  /\ SheetButtonOnClick(isConnected, isCorrectNetwork) = "handleConnectWallet"
  /\ state' = mintReducer(state, ConnectStart)
  /\ connecting' = TRUE
  /\ UNCHANGED <<prev, last, call, contract, props, mintParams, allowance, isSheetOpen,
                 isConnected, walletChain, write, receipt, effectPending, passes,
                 allowanceRead, nextTx, lastSend, mintsOpen>>

\* The wallet connects (connect() of line 444 or the reconnection at mount):
\* address and chain become known, mintParams is rebuilt from the props and
\* the allowance re-check effect of lines 418-427 runs.
WalletConnects ==
  /\ ~effectPending
  /\ ~isConnected
  /\ connecting
  /\ isConnected' = TRUE
  /\ connecting' = FALSE
  /\ walletChain' \in Chains
  /\ mintParams' = BuildMintParams(props, TRUE)
  /\ allowanceRead' = (allowanceRead \/ AllowanceCheckDue(state, TRUE))
  /\ UNCHANGED <<state, prev, last, call, contract, props, allowance, isSheetOpen, write,
                 receipt, effectPending, passes, nextTx, lastSend, mintsOpen>>

\* handleSwitchNetwork (lines 322-328): the main button of the sheet or the
\* wrong-network notice of the sheet and error steps; the wallet switches.
HandleSwitchNetwork ==
  /\ ~effectPending
  /\ isSheetOpen
  /\ isConnected /\ ~isCorrectNetwork
  /\ \/ SheetShown
     \/ state.step = "error"
  /\ walletChain' = TargetChain
  /\ UNCHANGED <<state, prev, last, call, contract, props, mintParams, allowance,
                 isSheetOpen, isConnected, connecting, write, receipt, effectPending,
                 passes, allowanceRead, nextTx, lastSend, mintsOpen>>

\* The user changes the network in the wallet.
WalletChainChanges ==
  /\ ~effectPending
  /\ isConnected
  /\ walletChain' \in Chains \ {walletChain}
  /\ UNCHANGED <<state, prev, last, call, contract, props, mintParams, allowance,
                 isSheetOpen, isConnected, connecting, write, receipt, effectPending,
                 passes, allowanceRead, nextTx, lastSend, mintsOpen>>

\* The payer's allowance covers what the contract charges in its ERC-20
\* token (nothing when the claim is paid in native currency).
AllowanceCovers == contract.erc20 => allowance >= contract.cost * Amount

\* writeContract(...): the mutation starts anew, pending and without data
\* or error, so the receipt hook has no hash to wait for.
WriteRequest(kind, amount) ==
  [status |-> "pending", data |-> None, error |-> None, kind |-> kind, amount |-> amount]

\* handleMint (lines 494-540), reached from the sheet's main button.
HandleMint ==
  /\ ~effectPending
  /\ SheetShown
  /\ ~SheetButtonDisabled
  /\ SheetButtonOnClick(isConnected, isCorrectNetwork) = "handleMint"
  /\ IF ~isConnected
     THEN \* lines 495-498: handleConnectWallet
          /\ state' = mintReducer(state, ConnectStart)
          /\ connecting' = TRUE
          /\ UNCHANGED <<write, receipt, lastSend, mintsOpen, effectPending>>
     ELSE IF ~IsSome(state.contractInfo)
     THEN \* lines 500-506
          /\ state' = mintReducer(state, TxError("Contract information not available"))
          /\ mintsOpen' = 0
          /\ UNCHANGED <<connecting, write, receipt, lastSend, effectPending>>
     ELSE /\ state' = mintReducer(state, MintStart)
          /\ write' = WriteRequest("mint", state.priceData.totalCost)
          /\ receipt' = "idle"
          /\ lastSend' = [kind |-> "mint", chain |-> walletChain, covered |-> AllowanceCovers]
          /\ mintsOpen' = IF mintsOpen < 2 THEN mintsOpen + 1 ELSE 2
          /\ effectPending' = EffectDue(state.txType, write, receipt,
                                        state'.txType, write', receipt')
          /\ UNCHANGED connecting
  /\ UNCHANGED <<prev, last, call, contract, props, mintParams, allowance, isSheetOpen,
                 isConnected, walletChain, passes, allowanceRead, nextTx>>

\* handleApprove (lines 450-492), the button of the approve step (line 703),
\* disabled while a write is pending.
HandleApprove ==
  /\ ~effectPending
  /\ isSheetOpen
  /\ state.step = "approve"
  /\ IsSome(erc20DetailsOf(state))
  /\ ~isWritePending
  /\ IF ~isConnected \/ ~IsSome(erc20DetailsOf(state))
        \/ ~IsSome(state.contractInfo) \/ ~IsSome(Get(state.contractInfo).claim)
     THEN /\ state' = mintReducer(state, TxError("Missing required information for approval"))
          /\ mintsOpen' = 0
          /\ UNCHANGED <<write, receipt, lastSend, effectPending>>
     ELSE /\ state' = mintReducer(state, ApproveStart)
          /\ write' = WriteRequest("approval", Get(Get(state.contractInfo).claim).cost)
          /\ receipt' = "idle"
          /\ lastSend' = [kind |-> "approval", chain |-> walletChain, covered |-> AllowanceCovers]
          /\ effectPending' = EffectDue(state.txType, write, receipt,
                                        state'.txType, write', receipt')
          /\ UNCHANGED mintsOpen
  /\ UNCHANGED <<prev, last, call, contract, props, mintParams, allowance, isSheetOpen,
                 isConnected, connecting, walletChain, passes, allowanceRead, nextTx>>

\* Transaction hashes are told apart by their kind and a serial number;
\* consecutive hashes differ, and the serial numbers are reused cyclically.
NextSerial(n) == 1 - n

\* The wallet signs and broadcasts the pending request: writeData is the new
\* hash and the receipt hook starts waiting for it.
WalletSigns ==
  /\ ~effectPending
  /\ write.status = "pending"
  /\ nextTx' = NextSerial(nextTx)
  /\ write' = [write EXCEPT !.status = "success",
                            !.data = Some([kind |-> write.kind, n |-> NextSerial(nextTx)])]
  /\ receipt' = "pending"
  /\ effectPending' = EffectDue(state.txType, write, receipt, state.txType, write', receipt')
  /\ UNCHANGED <<state, prev, last, call, contract, props, mintParams, allowance,
                 isSheetOpen, isConnected, connecting, walletChain, passes,
                 allowanceRead, lastSend, mintsOpen>>

\* The wallet refuses the pending request (the user rejects it, or the
\* request fails before it is broadcast): writeError is set.
WalletRejects ==
  /\ ~effectPending
  /\ write.status = "pending"
  /\ \E e \in {"user-rejected", "failed"} :
       write' = [write EXCEPT !.status = "error", !.error = Some(e)]
  /\ effectPending' = EffectDue(state.txType, write, receipt, state.txType, write', receipt)
  /\ UNCHANGED <<state, prev, last, call, contract, props, mintParams, allowance,
                 isSheetOpen, isConnected, connecting, walletChain, receipt, passes,
                 allowanceRead, nextTx, lastSend, mintsOpen>>

\* The chain executes a mint only if the claim needs no merkle proof and,
\* for an ERC-20 claim, the allowance covers the cost.
MintExecutes == ~contract.merkle /\ AllowanceCovers

\* The receipt of the transaction writeData arrives with status success.
ReceiptSuccess ==
  /\ ~effectPending
  /\ receipt = "pending"
  /\ write.kind = "mint" => MintExecutes
  /\ receipt' = "success"
  /\ allowance' = IF write.kind = "approval" THEN write.amount
                  ELSE IF contract.erc20 THEN allowance - contract.cost
                  ELSE allowance
  /\ effectPending' = EffectDue(state.txType, write, receipt, state.txType, write, receipt')
  /\ UNCHANGED <<state, prev, last, call, contract, props, mintParams, isSheetOpen,
                 isConnected, connecting, walletChain, write, passes, allowanceRead,
                 nextTx, lastSend, mintsOpen>>

\* The transaction writeData reverts or the wait for its receipt fails.
ReceiptError ==
  /\ ~effectPending
  /\ receipt = "pending"
  /\ receipt' = "error"
  /\ effectPending' = EffectDue(state.txType, write, receipt, state.txType, write, receipt')
  /\ UNCHANGED <<state, prev, last, call, contract, props, mintParams, allowance,
                 isSheetOpen, isConnected, connecting, walletChain, write, passes,
                 allowanceRead, nextTx, lastSend, mintsOpen>>

\* One run of the effect of lines 251-304.
TransactionEffect ==
  /\ effectPending
  /\ LET acts == EffectActions(state.txType, write, receipt)
     IN /\ state' = ReduceAll(state, acts)
        /\ mintsOpen' = OpenAfter(mintsOpen, acts)
  /\ effectPending' = EffectDue(state.txType, write, receipt, state'.txType, write, receipt)
  /\ allowanceRead' = (allowanceRead \/ AllowanceCheckDue(state', isConnected))
  /\ UNCHANGED <<prev, last, call, contract, props, mintParams, allowance, isSheetOpen,
                 isConnected, connecting, walletChain, write, receipt, passes,
                 nextTx, lastSend>>

\* checkAllowanceOnly (lines 383-415) returns: UPDATE_ALLOWANCE with the
\* allowance read, or nothing when the read fails.
AllowanceReturns ==
  /\ ~effectPending
  /\ allowanceRead
  /\ allowanceRead' = FALSE
  /\ \E ok \in BOOLEAN :
       state' = IF ok THEN mintReducer(state, UpdateAllowance(allowance)) ELSE state
  /\ UNCHANGED <<prev, last, call, contract, props, mintParams, allowance, isSheetOpen,
                 isConnected, connecting, walletChain, write, receipt, effectPending,
                 passes, nextTx, lastSend, mintsOpen>>

Next ==
  \/ HandleInitialMint
  \/ \E i \in 1..MaxInFlight : DetectReturns(i)
  \/ \E i \in 1..MaxInFlight : PriceReturns(i)
  \/ HandleClose
  \/ HandleRetry
  \/ HandleConnectWallet
  \/ WalletConnects
  \/ HandleSwitchNetwork
  \/ WalletChainChanges
  \/ HandleMint
  \/ HandleApprove
  \/ WalletSigns
  \/ WalletRejects
  \/ ReceiptSuccess
  \/ ReceiptError
  \/ TransactionEffect
  \/ AllowanceReturns

Spec == Init /\ [][Next]_vars

\* Sessions on a Manifold claim paid in an ERC-20 token, the contract for
\* which both an approval and a mint are sent.
InitErc20Claim ==
  /\ Init
  /\ contract = [provider |-> "manifold", erc20 |-> TRUE, merkle |-> FALSE,
                 cost |-> 1, fee |-> 1]
  /\ props = [instanceId |-> Some("1"), tokenId |-> None]

\* React runs a scheduled effect: the transaction effect cannot stay due
\* for ever.
FairSpec == InitErc20Claim /\ [][Next]_vars /\ WF_vars(TransactionEffect)

\* ------------------------------------------------- the reducer on its own
\* Every action of MintAction dispatched in every order from initialState,
\* with payloads drawn from the sets below.
InfoPayloads ==
  { [ContractInfo("generic", FALSE, TRUE, None) EXCEPT !.claim = None] }
  \cup
  { [ContractInfo("manifold", FALSE, TRUE, Some(KnownManifoldExtension))
       EXCEPT !.claim = Some([cost |-> c, merkleRoot |-> ZeroRoot, erc20 |-> TokenAddress])] :
      c \in 1..MaxCost }

Erc20Payloads ==
  {None} \cup { Some([address |-> TokenAddress, allowance |-> a]) :
                  a \in {None} \cup {Some(n) : n \in 0..MaxCost} }

PricePayloads ==
  { [mintPrice |-> Some(1), totalCost |-> 1, erc20Details |-> e] : e \in Erc20Payloads }

HashPayloads == { [kind |-> k, n |-> 0] : k \in {"approval", "mint"} }

ErrorPayloads == {"Failed to detect NFT contract type"}

InitReducer ==
  /\ state = initialState
  /\ prev = initialState
  /\ last = [type |-> "none"]
  /\ call = NoCall
  /\ contract = [provider |-> "generic", erc20 |-> FALSE, merkle |-> FALSE,
                 cost |-> 1, fee |-> 0]
  /\ props = [instanceId |-> None, tokenId |-> None]
  /\ mintParams = BuildMintParams(props, FALSE)
  /\ allowance = 0
  /\ isSheetOpen = FALSE
  /\ isConnected = FALSE
  /\ connecting = FALSE
  /\ walletChain = TargetChain
  /\ write = IdleWrite
  /\ receipt = "idle"
  /\ effectPending = FALSE
  /\ passes = <<>>
  /\ allowanceRead = FALSE
  /\ nextTx = 0
  /\ lastSend = [kind |-> "none", chain |-> TargetChain, covered |-> TRUE]
  /\ mintsOpen = 0

\* dispatch(a)
Dispatch(a) ==
  /\ prev' = state
  /\ last' = a
  /\ state' = mintReducer(state, a)
  /\ UNCHANGED <<call, driverVars>>

DispatchDetectStart == Dispatch(DetectStart)
DispatchDetectSuccess ==
  \E info \in InfoPayloads, price \in PricePayloads : Dispatch(DetectSuccess(Some(info), price))
DispatchDetectError == \E m \in ErrorPayloads : Dispatch(DetectError(m))
DispatchValidationError == Dispatch(ValidationError(<<ErrMerkle>>))
DispatchApproveRequired == Dispatch(ApproveRequired)
DispatchApproveStart == Dispatch(ApproveStart)
DispatchApproveTxSubmitted == \E h \in HashPayloads : Dispatch(ApproveTxSubmitted(h))
DispatchApproveSuccess == Dispatch(ApproveSuccess)
DispatchConnectStart == Dispatch(ConnectStart)
DispatchConnectSuccess == Dispatch(ConnectSuccess)
DispatchMintStart == Dispatch(MintStart)
DispatchMintTxSubmitted == \E h \in HashPayloads : Dispatch(MintTxSubmitted(h))
DispatchTxSuccess == \E h \in HashPayloads : Dispatch(TxSuccess(h))
DispatchTxError == \E m \in ErrorPayloads : Dispatch(TxError(m))
DispatchUpdateAllowance == \E a \in 0..MaxCost : Dispatch(UpdateAllowance(a))
DispatchReset == Dispatch(Reset)

NextReducer ==
  \/ DispatchDetectStart
  \/ DispatchDetectSuccess
  \/ DispatchDetectError
  \/ DispatchValidationError
  \/ DispatchApproveRequired
  \/ DispatchApproveStart
  \/ DispatchApproveTxSubmitted
  \/ DispatchApproveSuccess
  \/ DispatchConnectStart
  \/ DispatchConnectSuccess
  \/ DispatchMintStart
  \/ DispatchMintTxSubmitted
  \/ DispatchTxSuccess
  \/ DispatchTxError
  \/ DispatchUpdateAllowance
  \/ DispatchReset

SpecReducer == InitReducer /\ [][NextReducer]_vars

\* --------------------------------------------------- reducer properties
\* C1: TX_SUCCESS dispatched while txType is "approval" or null returns the
\* state unchanged (so it never newly reaches "success"); dispatched while
\* txType is "mint" it yields step "success" and txType null.
C1_TxSuccessByKind ==
  last.type = "TX_SUCCESS" =>
    /\ prev.txType \in {"approval", "null"} => state = prev
    /\ prev.txType = "mint" => state.step = "success" /\ state.txType = "null"

C1_Witness ==
  /\ last.type = "TX_SUCCESS"
  /\ prev.txType = "approval"
  /\ prev.step = "waiting"
  /\ state.step = "waiting"

\* C2: DETECT_SUCCESS whose payload has ERC-20 details and a claim moves to
\* "approve" when the allowance is known and below the claim cost and to
\* "sheet" when it is at least the cost; without ERC-20 details it moves to
\* "sheet".
C2_ApprovalGating ==
  last.type = "DETECT_SUCCESS" =>
    LET e == last.payload.priceData.erc20Details
        claim == Get(last.payload.contractInfo).claim
    IN /\ ~IsSome(e) => state.step = "sheet"
       /\ (IsSome(e) /\ IsSome(claim) /\ IsSome(Get(e).allowance)) =>
            IF Get(Get(e).allowance) < Get(claim).cost
            THEN state.step = "approve"
            ELSE state.step = "sheet"

C2_Witness ==
  /\ last.type = "DETECT_SUCCESS"
  /\ IsSome(last.payload.priceData.erc20Details)
  /\ IsSome(Get(last.payload.contractInfo).claim)
  /\ Get(last.payload.priceData.erc20Details).allowance
       = Some(Get(Get(last.payload.contractInfo).claim).cost)
  /\ state.step = "sheet"

\* C3: RESET from any state reached by any sequence of actions yields the
\* initial value in every field.
C3_ResetComplete ==
  last.type = "RESET" =>
    /\ state.step = "initial"
    /\ state.contractInfo = None
    /\ state.priceData = [mintPrice |-> None, totalCost |-> 0, erc20Details |-> None]
    /\ state.error = None
    /\ state.txHash = None
    /\ state.txType = "null"
    /\ state.isLoading = FALSE
    /\ state.validationErrors = <<>>
    /\ state = initialState

C3_Witness ==
  /\ last.type = "RESET"
  /\ prev.step = "waiting"
  /\ IsSome(prev.txHash)
  /\ IsSome(prev.contractInfo)
  /\ state.step = "initial"

\* The step from which the flow dispatches each *_START action.
StartActions == {"DETECT_START", "APPROVE_START", "CONNECT_START", "MINT_START"}
PrecedingStep(type) ==
  CASE type = "DETECT_START" -> "initial"
    [] type = "APPROVE_START" -> "approve"
    [] type = "CONNECT_START" -> "sheet"
    [] type = "MINT_START" -> "sheet"

\* C7: a *_START action applied in a step other than the one that precedes
\* it leaves the state unchanged or moves it to "error".
C7_StartOnlyFromPrecedingStep ==
  (last.type \in StartActions /\ prev.step # PrecedingStep(last.type)) =>
    (state = prev \/ state.step = "error")

\* C8: APPROVE_SUCCESS applied while txType is "mint" leaves the state
\* unchanged.
C8_ApproveSuccessNotDuringMint ==
  (last.type = "APPROVE_SUCCESS" /\ prev.txType = "mint") => state = prev

\* ---------------------------------------------------- driver properties
\* C4: a mint transaction for a contract charging an ERC-20 token is sent
\* only when the payer's allowance towards the spender is at least the cost
\* the contract will charge.
C4_NoMissedApproval ==
  lastSend.kind = "mint" => lastSend.covered

\* C5: at most one mint transaction is in flight: after one is sent no
\* second one is sent before TX_SUCCESS, TX_ERROR or RESET.
C5_NoDoubleMint ==
  mintsOpen <= 1

\* The wallet has reported the receipt of the transaction recorded in the
\* state while the step is "waiting".
ReceiptReported(kind, outcome) ==
  /\ state.step = "waiting"
  /\ state.txType = kind
  /\ IsSome(state.txHash)
  /\ state.txHash = write.data
  /\ receipt = outcome

\* C6: once the receipt of the recorded transaction is reported in step
\* "waiting", the session leaves "waiting": a confirmed approval leads to
\* "sheet", a confirmed mint to "success" and a failed transaction to
\* "error".
C6_NoStuckWaiting ==
  /\ ReceiptReported("approval", "success") ~> state.step = "sheet"
  /\ ReceiptReported("mint", "success") ~> state.step = "success"
  /\ (ReceiptReported("approval", "error") \/ ReceiptReported("mint", "error"))
       ~> state.step = "error"

C6_Witness ==
  /\ state.step = "success"
  /\ receipt = "success"
  /\ write.kind = "mint"
  /\ state.txHash = write.data
  /\ ~effectPending

\* C9: a mint transaction is sent only while the chain of the connected
\* wallet is the target chain.
C9_WrongChainGate ==
  lastSend.kind = "mint" => lastSend.chain = TargetChain

C9_Witness ==
  /\ lastSend.kind = "mint"
  /\ state.step = "minting"
  /\ write.kind = "mint"
  /\ isWritePending
  /\ walletChain = TargetChain

\* C10: for a contract whose claim has a non-zero merkle root the session
\* never offers or submits a transaction: it does not reach the steps past
\* detection and no approval or mint request is made.
C10_ValidationPrecedesTransactions ==
  contract.merkle =>
    /\ lastSend.kind = "none"
    /\ state.step \notin {"sheet", "approve", "approving", "minting", "waiting", "success"}

\* C11: in every state, whatever a run of the transaction effect hands to
\* onMintSuccess is the hash of a mint transaction whose receipt reports
\* success; nothing is handed over for an approval transaction.
C11_OnMintSuccessOnlyForMint ==
  \A i \in 1..Len(OnMintSuccessCalls(state.txType, write, receipt)) :
    LET h == OnMintSuccessCalls(state.txType, write, receipt)[i]
    IN /\ h.kind = "mint"
       /\ write.kind = "mint"
       /\ write.data = Some(h)
       /\ receipt = "success"

C11_Witness ==
  /\ effectPending
  /\ OnMintSuccessCalls(state.txType, write, receipt) = <<[kind |-> "mint", n |-> 0]>>
  /\ allowance = 0
  /\ contract.erc20

\* ------------------------------------------- library functions on their own
\* Each function of the detection, validation, pricing and error libraries
\* called once with arguments drawn from the sets below; call records the
\* arguments and the result.
OtherExtension == "0xExtensionA"
ThirdExtension == "0xExtensionB"
ExtensionAddresses == {KnownManifoldExtension, OtherExtension, ThirdExtension}
ExtensionLists == UNION { [1..n -> ExtensionAddresses] : n \in 0..MaxExtensions }

SpecifiedProviders == {None, Some("manifold"), Some("zora")}

ProbeChoices ==
  [erc721 : {"true", "false", "error"},
   erc1155 : {"true", "false", "error"},
   extensions : {None} \cup {Some(l) : l \in ExtensionLists},
   n2mVersion : {None, Some(1)},
   claimCondition : {"error", "pair", "other"},
   sharedMetadata : BOOLEAN]

\* one call of a library function, made once
LibCall(record) ==
  /\ call = NoCall
  /\ call' = record
  /\ UNCHANGED <<state, prev, last, driverVars>>

CallDetect ==
  /\ call = NoCall
  /\ \E provider \in SpecifiedProviders, probes \in ProbeChoices :
    LET params == [BuildMintParams([instanceId |-> None, tokenId |-> None], FALSE)
                     EXCEPT !.provider = provider]
    IN LibCall([fn |-> "detectNFTProvider", params |-> params, probes |-> probes,
                result |-> detectNFTProvider(params, probes)])


\* PROVIDER_CONFIGS[provider] || PROVIDER_CONFIGS.generic: the ABIs and the
\* mint function of the catalog entry
BaseConfig(provider) ==
  CASE provider = "manifold" ->
         [name |-> "manifold", priceAbis |-> <<"MANIFOLD_EXTENSION_ABI">>,
          mintAbi |-> "MANIFOLD_EXTENSION_ABI", mintFunction |-> "mint"]
    [] provider \in {"opensea", "zora"} ->
         [name |-> provider, priceAbis |-> <<"PRICE_DISCOVERY_ABI">>,
          mintAbi |-> "MINT_ABI", mintFunction |-> "mint"]
    [] provider = "nfts2me" ->
         [name |-> "nfts2me", priceAbis |-> <<"NFTS2ME_MINT_FEE_ABI">>,
          mintAbi |-> "NFTS2ME_MINT_ABI", mintFunction |-> "mint"]
    [] provider = "thirdweb" ->
         [name |-> "thirdweb", priceAbis |-> <<"THIRDWEB_OPENEDITONERC721_ABI">>,
          mintAbi |-> "THIRDWEB_OPENEDITONERC721_ABI", mintFunction |-> "claim"]
    [] OTHER ->
         [name |-> "generic", priceAbis |-> <<"PRICE_DISCOVERY_ABI">>,
          mintAbi |-> "MINT_ABI", mintFunction |-> "mint"]

\* variant: the ERC-1155 flag looked at first
getManifoldABIMultiFirst(contractInfo) ==
  IF ~IsSome(contractInfo) THEN "MANIFOLD_ERC721_EXTENSION_ABI"
  ELSE IF Get(contractInfo).isERC1155 THEN "MANIFOLD_ERC1155_EXTENSION_ABI"
  ELSE "MANIFOLD_ERC721_EXTENSION_ABI"

getManifoldABI(contractInfo) ==
  IF ~IsSome(contractInfo) THEN "MANIFOLD_ERC721_EXTENSION_ABI"
  ELSE IF Get(contractInfo).isERC721 THEN "MANIFOLD_ERC721_EXTENSION_ABI"
  ELSE IF Get(contractInfo).isERC1155 THEN "MANIFOLD_ERC1155_EXTENSION_ABI"
  ELSE "MANIFOLD_ERC721_EXTENSION_ABI"

\* getProviderConfig: the ABIs of the configuration returned (the thirdweb
\* branch replaces buildArgs and calculateValue only)
getProviderConfig(provider, contractInfo) ==
  IF provider = "manifold"
  THEN [BaseConfig(provider) EXCEPT !.priceAbis = <<getManifoldABI(contractInfo)>>,
                                    !.mintAbi = getManifoldABI(contractInfo)]
  ELSE BaseConfig(provider)

CallGetProviderConfig ==
  /\ call = NoCall
  /\ \E provider \in {"manifold", "thirdweb", "generic", "unlisted"},
     contractInfo \in {None} \cup { Some(ContractInfo(p, is1155, is721, None)) :
                                      p \in {"manifold", "generic"},
                                      is1155 \in BOOLEAN, is721 \in BOOLEAN } :
    LibCall([fn |-> "getProviderConfig", provider |-> provider,
             contractInfo |-> contractInfo,
             result |-> getProviderConfig(provider, contractInfo)])


\* The claim data a contract description may carry when it is validated.
ClaimChoices ==
  {None} \cup { Some([cost |-> 1, merkleRoot |-> r, erc20 |-> ZeroAddress]) :
                  r \in {ZeroRoot, NonZeroRoot} }

ClaimConditionChoices ==
  {None} \cup { Some([id |-> 0, pricePerToken |-> 1, currency |-> ThirdwebNativeToken,
                      merkleRoot |-> r, startTimestamp |-> t]) :
                  r \in {ZeroRoot, NonZeroRoot}, t \in {0, 5} }

CallValidate ==
  /\ call = NoCall
  /\ \E instanceId \in {None, Some("1"), Some("-1"), Some("abc")},
     tokenId \in {None, Some("2")},
     contractAddress \in {None, Some(ContractAddress)},
     chainId \in {None, Some(TargetChain)},
     provider \in {"manifold", "thirdweb", "generic"},
     claim \in ClaimChoices,
     claimCondition \in ClaimConditionChoices,
     now \in {3, 7} :
    LET params == [BuildMintParams([instanceId |-> instanceId, tokenId |-> tokenId], TRUE)
                     EXCEPT !.contractAddress = contractAddress, !.chainId = chainId]
        contractInfo == [ContractInfo(provider, FALSE, TRUE, None)
                           EXCEPT !.claim = claim, !.claimCondition = claimCondition]
    IN LibCall([fn |-> "validateParameters", params |-> params,
                contractInfo |-> contractInfo, now |-> now,
                result |-> validateParameters(params, contractInfo, now)])


\* A network on which no read succeeds.
DeadRpc ==
  [mintFee |-> None, mintFeeRetry |-> None, claim |-> None, claimForToken |-> None,
   erc20Meta |-> FALSE, allowance |-> None, balance |-> None,
   prices |-> [n \in AllPriceFunctions |-> None],
   n2mMintPrice |-> None, n2mFees |-> None,
   twClaimCondition |-> None, twCondition |-> None]

PriceAnswers == {None} \cup { Some(v) : v \in 0..MaxCost }

\* fetchPriceData for a contract detected as generic: each candidate price
\* function fails or answers a price.
CallFetchPriceGeneric ==
  /\ call = NoCall
  /\ \E amount \in 0..2,
     answers \in [{"mintPrice", "price", "MINT_PRICE", "getMintPrice"} -> PriceAnswers] :
    LET params == [BuildMintParams([instanceId |-> None, tokenId |-> None], TRUE)
                     EXCEPT !.amount = amount]
        contractInfo == ContractInfo("generic", FALSE, TRUE, None)
        rpc == [DeadRpc EXCEPT !.prices =
                  [n \in AllPriceFunctions |->
                     IF n \in DOMAIN answers THEN answers[n] ELSE None]]
    IN LibCall([fn |-> "fetchPriceData", params |-> params,
                contractInfo |-> contractInfo, rpc |-> rpc,
                result |-> fetchPriceData(params, contractInfo, rpc)])


\* What getClaim may answer: a native claim, an ERC-20 claim, or a response
\* that fails the structure checks.
ClaimAnswers ==
  { [shape |-> "ok", cost |-> 1, merkleRoot |-> ZeroRoot, erc20 |-> ZeroAddress],
    [shape |-> "ok", cost |-> 1, merkleRoot |-> ZeroRoot, erc20 |-> TokenAddress],
    [shape |-> "invalid", cost |-> 0, merkleRoot |-> ZeroRoot, erc20 |-> ZeroAddress] }

\* fetchPriceData for a contract detected as manifold: every read of the
\* branch fails or answers.
CallFetchPriceManifold ==
  /\ call = NoCall
  /\ \E instanceId \in {None, Some("1"), Some("abc")},
     tokenId \in {None, Some("2")},
     connected \in BOOLEAN,
     mintFee \in {None, Some(1)},
     mintFeeRetry \in {None, Some(1)},
     claim \in {None} \cup { Some(c) : c \in ClaimAnswers },
     forToken \in BOOLEAN,
     erc20Meta \in BOOLEAN,
     allowanceAnswer \in {None, Some(0)},
     balanceAnswer \in {None, Some(1)} :
    LET params == BuildMintParams([instanceId |-> instanceId, tokenId |-> tokenId], connected)
        contractInfo == ContractInfo("manifold", FALSE, TRUE, Some(KnownManifoldExtension))
        rpc == [DeadRpc EXCEPT
                  !.mintFee = mintFee, !.mintFeeRetry = mintFeeRetry, !.claim = claim,
                  !.claimForToken = IF forToken /\ claim # None
                                    THEN Some([instanceId |-> "1", claim |-> Get(claim)])
                                    ELSE None,
                  !.erc20Meta = erc20Meta, !.allowance = allowanceAnswer,
                  !.balance = balanceAnswer]
    IN LibCall([fn |-> "fetchPriceData", params |-> params,
                contractInfo |-> contractInfo, rpc |-> rpc,
                result |-> fetchPriceData(params, contractInfo, rpc)])


\* ---- error-parser: parseError ----
\* An error text is a sequence of fragments; a pattern occurs in the text when
\* it occurs in one of its fragments.
Fragments ==
  { "User Rejected", "user denied", "insufficient funds", "Exceeds Balance",
    "chainid", "network", "Execution Reverted", "contract error", "sold out",
    "not active", "allowance", "approve", "timeout", "rpc", "something else" }

\* String.prototype.toLowerCase on the fragments above.
ToLowerCase(fragment) ==
  CASE fragment = "User Rejected" -> "user rejected"
    [] fragment = "Exceeds Balance" -> "exceeds balance"
    [] fragment = "Execution Reverted" -> "execution reverted"
    [] OTHER -> fragment

\* The proper substrings, among the patterns, of the lower-cased fragments.
ProperSubstrings ==
  { <<"chainid", "chain">>, <<"execution reverted", "revert">> }

\* String.prototype.includes on a lower-cased text.
Includes(text, pattern) ==
  \E i \in 1..Len(text) : text[i] = pattern \/ <<text[i], pattern>> \in ProperSubstrings

\* error instanceof Error ? error.message.toLowerCase() : String(error).toLowerCase()
ErrorMessage(error) ==
  IF error.kind \in {"Error", "string"}
  THEN [i \in 1..Len(error.text) |-> ToLowerCase(error.text[i])]
  ELSE <<"[object object]">>

ParsedError(type, message, details, actionText) ==
  [type |-> type, message |-> message, details |-> details, actionText |-> actionText]

ContractErrorDetails(errorMessage) ==
  IF Includes(errorMessage, "sold out") \/ Includes(errorMessage, "max supply")
  THEN <<"This NFT is sold out or has reached maximum supply.">>
  ELSE IF Includes(errorMessage, "not started") \/ Includes(errorMessage, "not active")
  THEN <<"Minting hasn't started yet or has ended.">>
  ELSE IF Includes(errorMessage, "max per wallet") \/ Includes(errorMessage, "exceeds max")
  THEN <<"You've reached the maximum amount allowed per wallet.">>
  ELSE IF Includes(errorMessage, "allowlist") \/ Includes(errorMessage, "not eligible")
  THEN <<"You're not eligible to mint this NFT. Check if it requires an allowlist.">>
  ELSE <<"The contract rejected this transaction.">>

UnknownDetails(error) ==
  IF error.kind = "Error" THEN error.text ELSE <<"An unexpected error occurred">>

\* parseError with the allowance test moved in front of the contract test.
parseErrorAllowanceFirst(error, context) ==
  LET errorMessage == ErrorMessage(error) IN
  IF Includes(errorMessage, "user rejected") \/ Includes(errorMessage, "user denied")
  THEN ParsedError("user-rejected", "Transaction cancelled",
                   <<"You rejected the transaction in your wallet">>, "Try again")
  ELSE IF \/ Includes(errorMessage, "insufficient funds")
          \/ Includes(errorMessage, "insufficient balance")
          \/ Includes(errorMessage, "not enough")
          \/ Includes(errorMessage, "exceeds balance")
  THEN ParsedError("insufficient-funds", "Insufficient funds",
                   <<"balance">>, "Check wallet balance")
  ELSE IF \/ Includes(errorMessage, "network")
          \/ Includes(errorMessage, "chain")
          \/ Includes(errorMessage, "chainid")
  THEN ParsedError("wrong-network", "Wrong network",
                   <<"Please switch to the correct network in your wallet">>, "Switch network")
  ELSE IF Includes(errorMessage, "allowance") \/ Includes(errorMessage, "approve")
  THEN ParsedError("allowance-error", "Approval required",
                   <<"You need to approve the contract spend your tokens first">>,
                   "Approve tokens")
  ELSE IF \/ Includes(errorMessage, "revert")
          \/ Includes(errorMessage, "execution reverted")
          \/ Includes(errorMessage, "contract error")
  THEN ParsedError("contract-error", "Transaction failed",
                   ContractErrorDetails(errorMessage), "Try again later")
  ELSE IF \/ Includes(errorMessage, "timeout")
          \/ Includes(errorMessage, "network")
          \/ Includes(errorMessage, "fetch")
          \/ Includes(errorMessage, "rpc")
  THEN ParsedError("network-error", "Network error",
                   <<"Connection issue with the blockchain. This is usually temporary.">>,
                   "Try again")
  ELSE ParsedError("unknown", "Transaction failed", UnknownDetails(error), "Try again")

parseError(error, context) ==
  LET errorMessage == ErrorMessage(error) IN
  IF Includes(errorMessage, "user rejected") \/ Includes(errorMessage, "user denied")
  THEN ParsedError("user-rejected", "Transaction cancelled",
                   <<"You rejected the transaction in your wallet">>, "Try again")
  ELSE IF \/ Includes(errorMessage, "insufficient funds")
          \/ Includes(errorMessage, "insufficient balance")
          \/ Includes(errorMessage, "not enough")
          \/ Includes(errorMessage, "exceeds balance")
  THEN ParsedError("insufficient-funds", "Insufficient funds",
                   IF context = "approval"
                   THEN <<"You don't have enough tokens to approve this amount">>
                   ELSE <<"You don't have enough funds to complete this transaction. Check both token balance and ETH for gas.">>,
                   "Check wallet balance")
  ELSE IF \/ Includes(errorMessage, "network")
          \/ Includes(errorMessage, "chain")
          \/ Includes(errorMessage, "chainid")
  THEN ParsedError("wrong-network", "Wrong network",
                   <<"Please switch to the correct network in your wallet">>, "Switch network")
  ELSE IF \/ Includes(errorMessage, "revert")
          \/ Includes(errorMessage, "execution reverted")
          \/ Includes(errorMessage, "contract error")
  THEN ParsedError("contract-error", "Transaction failed",
                   ContractErrorDetails(errorMessage), "Try again later")
  ELSE IF Includes(errorMessage, "allowance") \/ Includes(errorMessage, "approve")
  THEN ParsedError("allowance-error", "Approval required",
                   <<"You need to approve the contract spend your tokens first">>,
                   "Approve tokens")
  ELSE IF \/ Includes(errorMessage, "timeout")
          \/ Includes(errorMessage, "network")
          \/ Includes(errorMessage, "fetch")
          \/ Includes(errorMessage, "rpc")
  THEN ParsedError("network-error", "Network error",
                   <<"Connection issue with the blockchain. This is usually temporary.">>,
                   "Try again")
  ELSE ParsedError("unknown", "Transaction failed", UnknownDetails(error), "Try again")

ErrorTexts ==
  UNION { [1..n -> Fragments] : n \in 0..MaxFragments }

CallParseError ==
  /\ call = NoCall
  /\ \E kind \in {"Error", "string", "object"}, text \in ErrorTexts,
     context \in {"approval", "mint"} :
    LET error == [kind |-> kind, text |-> IF kind = "object" THEN <<>> ELSE text]
    IN LibCall([fn |-> "parseError", error |-> error, context |-> context,
                result |-> parseError(error, context)])


\* ---- getTokenMetadataURL ----
\* A contract read is None when it throws and Some(answer) when it returns.
\* uri.replace("{id}", tokenId.padStart(64, "0")) for token 2.
ReplaceId(uri) ==
  IF uri = "ipfs://uri/{id}" THEN "ipfs://uri/0...02" ELSE uri

\* `${baseURI}${separator}${tokenId}` for token 2.
JoinBaseURI(baseURI) ==
  CASE baseURI = "ipfs://base/" -> "ipfs://base/2"
    [] baseURI = "ipfs://base" -> "ipfs://base/2"

\* The data URI built from sharedMetadata, by the name it carries.
MetadataDataUri(name) ==
  CASE name = "" -> "data:application/json;base64,{name:''}"
    [] name = "Token #2" -> "data:application/json;base64,{name:'Token #2'}"
    [] OTHER -> "data:application/json;base64,{name:'n'}"

detectManifoldContract(rpc) ==
  IF rpc.extensions = None \/ Get(rpc.extensions) = <<>>
  THEN [isManifold |-> FALSE, extensionAddress |-> None]
  ELSE [isManifold |-> TRUE, extensionAddress |-> Some(PickExtension(Get(rpc.extensions)))]

\* What the provider hint's branch does: Some(string) when it returns that
\* string, None when it breaks out of the switch or its read throws.
HintBranch(providerHint, rpc) ==
  CASE providerHint = "manifold" ->
         IF detectManifoldContract(rpc).isManifold THEN rpc.manifoldTokenURI ELSE None
    [] providerHint = "erc1155" ->
         IF rpc.uri = None THEN None ELSE Some(ReplaceId(Get(rpc.uri)))
    [] providerHint = "thirdweb" ->
         IF rpc.sharedMetadata # None /\ Get(rpc.sharedMetadata).image # ""
         THEN Some(MetadataDataUri(Get(rpc.sharedMetadata).name))
         ELSE None
    [] OTHER -> None

\* The six fallback methods: None when the method throws, else its string.
fallbackMethods(rpc) ==
  << rpc.tokenURI,
     IF rpc.uri = None THEN None ELSE Some(ReplaceId(Get(rpc.uri))),
     IF detectManifoldContract(rpc).isManifold THEN rpc.manifoldTokenURI ELSE None,
     rpc.contractURI,
     IF rpc.sharedMetadata # None /\ Get(rpc.sharedMetadata).image # ""
     THEN Some(MetadataDataUri(IF Get(rpc.sharedMetadata).name = "" THEN "Token #2"
                               ELSE Get(rpc.sharedMetadata).name))
     ELSE None,
     IF rpc.baseURI # None /\ Get(rpc.baseURI) # ""
     THEN Some(JoinBaseURI(Get(rpc.baseURI)))
     ELSE None >>

\* The loop over the methods: the first result that is a non-empty string.
RECURSIVE TryMethods(_, _)
TryMethods(methods, i) ==
  IF i > Len(methods) THEN ""
  ELSE IF methods[i] # None /\ Get(methods[i]) # "" THEN Get(methods[i])
  ELSE TryMethods(methods, i + 1)

getTokenMetadataURL(rpc, providerHint) ==
  IF providerHint # None /\ HintBranch(Get(providerHint), rpc) # None
  THEN Get(HintBranch(Get(providerHint), rpc))
  ELSE TryMethods(fallbackMethods(rpc), 1)

SharedMetadataAnswers ==
  { None, Some([name |-> "", image |-> ""]), Some([name |-> "", image |-> "ipfs://image"]),
    Some([name |-> "n", image |-> "ipfs://image"]) }

CallGetTokenMetadataURL ==
  /\ call = NoCall
  /\ \E providerHint \in {None, Some("manifold"), Some("erc1155"), Some("thirdweb")},
     tokenURI \in {None, Some(""), Some("ipfs://tokenURI")},
     uri \in {None, Some(""), Some("ipfs://uri/{id}")},
     extensions \in {None, Some(<<>>), Some(<<KnownManifoldExtension>>)},
     manifoldTokenURI \in {None, Some(""), Some("ipfs://manifold")},
     contractURI \in {None, Some("ipfs://contract")},
     sharedMetadata \in SharedMetadataAnswers,
     baseURI \in {None, Some(""), Some("ipfs://base/"), Some("ipfs://base")} :
    LET rpc == [tokenURI |-> tokenURI, uri |-> uri, extensions |-> extensions,
                manifoldTokenURI |-> manifoldTokenURI, contractURI |-> contractURI,
                sharedMetadata |-> sharedMetadata, baseURI |-> baseURI]
    IN LibCall([fn |-> "getTokenMetadataURL", rpc |-> rpc, providerHint |-> providerHint,
                result |-> getTokenMetadataURL(rpc, providerHint)])

NextLib ==
  \/ CallDetect
  \/ CallGetProviderConfig
  \/ CallValidate
  \/ CallFetchPriceGeneric
  \/ CallFetchPriceManifold
  \/ CallParseError
  \/ CallGetTokenMetadataURL

SpecLib == InitReducer /\ [][NextLib]_vars

\* every probe of a detection answered with an error
AllProbesFail(probes) ==
  /\ probes.erc721 = "error"
  /\ probes.erc1155 = "error"
  /\ probes.extensions = None
  /\ probes.n2mVersion = None
  /\ probes.claimCondition = "error"

NFTProviders == {"manifold", "opensea", "zora", "generic", "nfts2me", "thirdweb"}

\* C12: whatever the probes answer, detectNFTProvider returns a contract
\* description, and when every probe errors the description is provider
\* "generic" with isERC721 and isERC1155 false.
C12_DetectNeverFails ==
  call.fn = "detectNFTProvider" =>
    /\ call.result.provider \in NFTProviders
    /\ DOMAIN call.result = DOMAIN ContractInfo("generic", FALSE, FALSE, None)
    /\ call.result.isERC721 \in BOOLEAN
    /\ call.result.isERC1155 \in BOOLEAN
    /\ (call.params.provider = None /\ AllProbesFail(call.probes)) =>
         /\ call.result.provider = "generic"
         /\ ~call.result.isERC721
         /\ ~call.result.isERC1155

C12_Witness ==
  /\ call.fn = "detectNFTProvider"
  /\ call.params.provider = None
  /\ AllProbesFail(call.probes)
  /\ call.result.provider = "generic"

\* C13: detectNFTProvider classifies by the first match: the provider given
\* in params without probing; else "manifold" for a non-empty extension
\* list; else "nfts2me" when n2mVersion answers; else "thirdweb" when
\* claimCondition answers a pair, whatever sharedMetadata does; else
\* "generic"; isERC721 and isERC1155 are the ERC-165 answers, a failed probe
\* counting as false.
C13_DetectOrder ==
  call.fn = "detectNFTProvider" =>
    LET probes == call.probes
        result == call.result
        hasExtensions == probes.extensions # None /\ Get(probes.extensions) # <<>>
    IN IF call.params.provider # None
       THEN result.provider = Get(call.params.provider)
       ELSE /\ result.provider =
                 (IF hasExtensions THEN "manifold"
                  ELSE IF probes.n2mVersion # None THEN "nfts2me"
                  ELSE IF probes.claimCondition = "pair" THEN "thirdweb"
                  ELSE "generic")
            /\ result.isERC721 = (probes.erc721 = "true")
            /\ result.isERC1155 = (probes.erc1155 = "true")

C13_Witness ==
  /\ call.fn = "detectNFTProvider"
  /\ call.params.provider = None
  /\ call.probes.extensions = Some(<<>>)
  /\ call.probes.n2mVersion = None
  /\ call.probes.claimCondition = "pair"
  /\ ~call.probes.sharedMetadata
  /\ call.probes.erc721 = "true"
  /\ call.result.provider = "thirdweb"
  /\ call.result.isERC721

\* C14: for a non-empty extension list the result is "manifold" with the
\* well-known extension address when the list holds it and the first
\* address of the list otherwise.
C14_ExtensionChoice ==
  (/\ call.fn = "detectNFTProvider"
   /\ call.params.provider = None
   /\ call.probes.extensions # None
   /\ Get(call.probes.extensions) # <<>>) =>
    LET extensions == Get(call.probes.extensions)
        known == \E i \in DOMAIN extensions : extensions[i] = KnownManifoldExtension
    IN /\ call.result.provider = "manifold"
       /\ call.result.extensionAddress =
            Some(IF known THEN KnownManifoldExtension ELSE extensions[1])
       /\ Len(extensions) = 1 => call.result.extensionAddress = Some(extensions[1])

C14_Witness ==
  /\ call.fn = "detectNFTProvider"
  /\ call.params.provider = None
  /\ call.probes.extensions = Some(<<OtherExtension, KnownManifoldExtension>>)
  /\ call.result.extensionAddress = Some(KnownManifoldExtension)

\* C15: for provider "manifold" getProviderConfig uses, for price discovery
\* and for the mint call, the ERC-721 extension ABI when isERC721 is true,
\* the ERC-1155 extension ABI when isERC1155 is true and isERC721 false, and
\* the ERC-721 extension ABI when both are false or no contract description
\* is given.
C15_ManifoldAbiSelection ==
  (call.fn = "getProviderConfig" /\ call.provider = "manifold") =>
    LET expected ==
          IF call.contractInfo = None THEN "MANIFOLD_ERC721_EXTENSION_ABI"
          ELSE IF Get(call.contractInfo).isERC721 THEN "MANIFOLD_ERC721_EXTENSION_ABI"
          ELSE IF Get(call.contractInfo).isERC1155 THEN "MANIFOLD_ERC1155_EXTENSION_ABI"
          ELSE "MANIFOLD_ERC721_EXTENSION_ABI"
    IN /\ call.result.priceAbis = <<expected>>
       /\ call.result.mintAbi = expected

C15_Witness ==
  /\ call.fn = "getProviderConfig"
  /\ call.provider = "manifold"
  /\ call.contractInfo # None
  /\ Get(call.contractInfo).isERC1155
  /\ ~Get(call.contractInfo).isERC721
  /\ call.result.mintAbi = "MANIFOLD_ERC1155_EXTENSION_ABI"

\* the parameter names an error message of validateParameters mentions
FieldsNamed(message) ==
  CASE message = ErrManifoldIds -> {"instanceId", "tokenId"}
    [] message = ErrInvalidInstanceId -> {"instanceId"}
    [] OTHER -> {}

\* C16: for provider "manifold" and params with neither instanceId nor
\* tokenId, validateParameters answers isValid false with an error that
\* names both instanceId and tokenId; in every case isValid is true exactly
\* when missingParams and errors are both empty.
C16_ManifoldIdsRequired ==
  call.fn = "validateParameters" =>
    /\ call.result.isValid = (call.result.missingParams = <<>> /\ call.result.errors = <<>>)
    /\ (/\ call.contractInfo.provider = "manifold"
        /\ call.params.instanceId = None
        /\ call.params.tokenId = None) =>
         /\ ~call.result.isValid
         /\ \E i \in DOMAIN call.result.errors :
              {"instanceId", "tokenId"} \subseteq FieldsNamed(call.result.errors[i])

C16_Witness ==
  /\ call.fn = "validateParameters"
  /\ call.contractInfo.provider = "manifold"
  /\ call.params.instanceId = None
  /\ call.params.tokenId = None
  /\ call.params.contractAddress # None
  /\ call.params.chainId # None
  /\ call.result.errors = <<ErrManifoldIds>>
  /\ ~call.result.isValid

\* C17: for a generic contract fetchPriceData returns the answer of the
\* first of mintPrice, price, MINT_PRICE, getMintPrice that succeeds as
\* mintPrice, with totalCost that price times the quantity, and mintPrice 0
\* with totalCost 0 when none succeeds.
C17_GenericPriceChain ==
  (call.fn = "fetchPriceData" /\ call.contractInfo.provider = "generic") =>
    LET names == <<"mintPrice", "price", "MINT_PRICE", "getMintPrice">>
        answered == { i \in 1..4 : call.rpc.prices[names[i]] # None }
        quantity == IF call.params.amount = 0 THEN 1 ELSE call.params.amount
        quote == call.result.quote
    IN IF answered = {}
       THEN quote.mintPrice = Some(0) /\ quote.totalCost = 0
       ELSE LET first == CHOOSE i \in answered : \A j \in answered : i <= j
                price == Get(call.rpc.prices[names[first]])
            IN /\ quote.mintPrice = Some(price)
               /\ quote.totalCost = price * quantity

C17_Witness ==
  /\ call.fn = "fetchPriceData"
  /\ call.contractInfo.provider = "generic"
  /\ call.rpc.prices["mintPrice"] = None
  /\ call.rpc.prices["price"] = Some(1)
  /\ call.rpc.prices["MINT_PRICE"] = Some(2)
  /\ call.params.amount = 2
  /\ call.result.quote.mintPrice = Some(1)
  /\ call.result.quote.totalCost = 2

\* C18: for the manifold provider a failed read of the claim leaves a
\* fee-only quote, totalCost being the flat mint fee, and when the flat fee
\* cannot be read the quote is the default fee of 500000000000000 wei.
C18_ManifoldFallbacks ==
  (call.fn = "fetchPriceData" /\ call.contractInfo.provider = "manifold") =>
    LET rpc == call.rpc
        quote == call.result.quote
        claimWanted == call.params.instanceId # None \/ call.params.tokenId # None
        claimFailed == IF call.params.instanceId # None THEN rpc.claim = None
                       ELSE rpc.claimForToken = None
    IN /\ (rpc.mintFee = None /\ rpc.mintFeeRetry = None) =>
            quote.totalCost = DefaultManifoldFee
       /\ (rpc.mintFee # None /\ claimWanted /\ claimFailed) =>
            quote.totalCost = Get(rpc.mintFee)

\* The categories of parseError in their priority order, with the substring
\* patterns of each.
CategoryOrder ==
  <<"user-rejected", "insufficient-funds", "wrong-network", "contract-error",
    "allowance-error", "network-error">>

CategoryPatterns(category) ==
  CASE category = "user-rejected" -> {"user rejected", "user denied"}
    [] category = "insufficient-funds" ->
         {"insufficient funds", "insufficient balance", "not enough", "exceeds balance"}
    [] category = "wrong-network" -> {"network", "chain", "chainid"}
    [] category = "contract-error" -> {"revert", "execution reverted", "contract error"}
    [] category = "allowance-error" -> {"allowance", "approve"}
    [] category = "network-error" -> {"timeout", "network", "fetch", "rpc"}

ErrorTypes ==
  { CategoryOrder[i] : i \in 1..Len(CategoryOrder) } \cup {"unknown"}

MatchingCategories(text) ==
  { i \in 1..Len(CategoryOrder) :
      \E pattern \in CategoryPatterns(CategoryOrder[i]) : Includes(text, pattern) }

\* C19: parseError returns the first category, in the order user-rejected,
\* insufficient-funds, wrong-network, contract-error, allowance-error,
\* network-error, one of whose patterns occurs in the lower-cased error text;
\* it returns unknown exactly when no pattern occurs; the type is always one
\* of the seven values, in both contexts.
C19_ParseErrorPriority ==
  call.fn = "parseError" =>
    LET matching == MatchingCategories(ErrorMessage(call.error))
        type == call.result.type
    IN /\ type \in ErrorTypes
       /\ (type = "unknown") <=> (matching = {})
       /\ matching # {} =>
            \E i \in matching :
              /\ type = CategoryOrder[i]
              /\ \A j \in matching : i <= j

\* A text that holds, in mixed case, patterns of the contract and of the
\* allowance category is classified as a contract error.
C19_Witness ==
  /\ call.fn = "parseError"
  /\ call.context = "approval"
  /\ call.error.kind = "Error"
  /\ call.error.text = <<"allowance", "Execution Reverted">>
  /\ call.result.type = "contract-error"

\* The methods in the order in which they are tried: the hinted one first
\* when a hint is given, then the six of the chain.
MethodsTried(rpc, providerHint) ==
  (IF providerHint = None THEN <<>> ELSE <<HintBranch(Get(providerHint), rpc)>>)
    \o fallbackMethods(rpc)

\* C20: getTokenMetadataURL returns the first non-empty string produced by
\* the methods in the order tried, and the empty string only if every method
\* fails or yields an empty result; a hinted method that fails or yields no
\* URI does not stop the chain.
C20_FirstNonEmptyUri ==
  call.fn = "getTokenMetadataURL" =>
    LET tried == MethodsTried(call.rpc, call.providerHint)
        produced == { i \in 1..Len(tried) : tried[i] # None /\ Get(tried[i]) # "" }
    IN IF produced = {} THEN call.result = ""
       ELSE \E i \in produced :
              /\ call.result = Get(tried[i])
              /\ \A j \in produced : i <= j

\* ------------------------------------------------- session properties
\* C21: in every sequence of actions from initialState, step "success" is
\* entered only by TX_SUCCESS applied in step "waiting" with txType "mint";
\* TX_SUCCESS in any other step does not produce "success".
C21_SuccessOnlyFromWaitingMint ==
  (state.step = "success" /\ prev.step # "success") =>
    /\ last.type = "TX_SUCCESS"
    /\ prev.step = "waiting"
    /\ prev.txType = "mint"

\* C22: once the wallet is connected after CONNECT_START and nothing is
\* pending any more (no connection attempt, no effect, no detection pass, no
\* allowance read), the session is no longer in step "connecting".
C22_ConnectRoundTrip ==
  (isConnected /\ ~connecting /\ ~effectPending /\ passes = <<>> /\ ~allowanceRead) =>
    state.step # "connecting"

\* C23: at most one detection pass is in flight, and a pass that completes
\* while the session is in step "initial" (RESET was dispatched after the
\* pass began) dispatches nothing into the session.
C23_SupersededPassIgnored ==
  /\ [](Len(passes) <= 1)
  /\ [][(state.step = "initial" /\ Len(passes') < Len(passes)) => state' = state]_vars

\* C24: TX_ERROR with payload m, applied to any state, yields step "error",
\* error m, isLoading false and txType null, and leaves contractInfo,
\* priceData, txHash and validationErrors as they were.
C24_TxErrorEffect ==
  last.type = "TX_ERROR" =>
    /\ state.step = "error"
    /\ state.error = Some(last.payload)
    /\ state.isLoading = FALSE
    /\ state.txType = "null"
    /\ state.contractInfo = prev.contractInfo
    /\ state.priceData = prev.priceData
    /\ state.txHash = prev.txHash
    /\ state.validationErrors = prev.validationErrors

C24_Witness ==
  /\ last.type = "TX_ERROR"
  /\ prev.step = "waiting"
  /\ prev.txType = "mint"
  /\ prev.isLoading
  /\ IsSome(prev.txHash)
  /\ IsSome(prev.contractInfo)
  /\ prev.validationErrors # <<>>
  /\ state.step = "error"

\* C25: UPDATE_ALLOWANCE with allowance a leaves step, txType, txHash,
\* isLoading, error and contractInfo unchanged; on a state with ERC-20
\* details it stores a and sets needsApproval to (a < stored claim cost),
\* false when no claim is stored; on a state without ERC-20 details it
\* returns the state unchanged.
C25_UpdateAllowanceFrame ==
  last.type = "UPDATE_ALLOWANCE" =>
    /\ state.step = prev.step
    /\ state.txType = prev.txType
    /\ state.txHash = prev.txHash
    /\ state.isLoading = prev.isLoading
    /\ state.error = prev.error
    /\ state.contractInfo = prev.contractInfo
    /\ ~IsSome(prev.priceData.erc20Details) => state = prev
    /\ IsSome(prev.priceData.erc20Details) =>
         LET e == Get(state.priceData.erc20Details)
             hasClaim == IsSome(prev.contractInfo) /\ IsSome(Get(prev.contractInfo).claim)
         IN /\ e.allowance = Some(last.payload)
            /\ e.needsApproval =
                 Some(hasClaim /\ last.payload < Get(Get(prev.contractInfo).claim).cost)

C25_Witness ==
  /\ last.type = "UPDATE_ALLOWANCE"
  /\ prev.step = "sheet"
  /\ IsSome(prev.priceData.erc20Details)
  /\ Get(prev.priceData.erc20Details).needsApproval = Some(FALSE)
  /\ IsSome(prev.contractInfo) /\ IsSome(Get(prev.contractInfo).claim)
  /\ last.payload < Get(Get(prev.contractInfo).claim).cost
  /\ Get(state.priceData.erc20Details).needsApproval = Some(TRUE)

\* C26: APPROVE_SUCCESS applied in step "waiting" with txType "approval"
\* yields step "sheet", no txHash, txType null and isLoading false, and on a
\* state with ERC-20 details needsApproval false and the stored allowance
\* equal to the stored claim cost.
C26_ApproveSuccessEffect ==
  (last.type = "APPROVE_SUCCESS" /\ prev.step = "waiting" /\ prev.txType = "approval") =>
    /\ state.step = "sheet"
    /\ state.txHash = None
    /\ state.txType = "null"
    /\ state.isLoading = FALSE
    /\ IsSome(prev.priceData.erc20Details) =>
         /\ Get(state.priceData.erc20Details).needsApproval = Some(FALSE)
         /\ Get(state.priceData.erc20Details).allowance = Some(StoredClaimCost(prev))

C26_Witness ==
  /\ last.type = "APPROVE_SUCCESS"
  /\ prev.step = "waiting"
  /\ prev.txType = "approval"
  /\ IsSome(prev.txHash)
  /\ IsSome(prev.priceData.erc20Details)
  /\ Get(prev.priceData.erc20Details).needsApproval = Some(TRUE)
  /\ Get(prev.priceData.erc20Details).allowance = Some(0)
  /\ Get(state.priceData.erc20Details).allowance = Some(MaxCost)
  /\ state.step = "sheet"

\* The claim that a manifold call of fetchPriceData reads and finds valid:
\* by instanceId, else by tokenId.
ValidClaimRead(params, rpc) ==
  LET answer == IF params.instanceId # None
                THEN (IF ParseInt(Get(params.instanceId)) # None THEN rpc.claim ELSE None)
                ELSE IF params.tokenId # None /\ rpc.claimForToken # None
                THEN Some(Get(rpc.claimForToken).claim)
                ELSE None
  IN IF answer # None /\ Get(answer).shape = "ok" THEN answer ELSE None

\* C27: for the manifold provider with a valid claim and the flat fee read,
\* the quote's totalCost is the fee plus the claim cost when the claim's
\* erc20 address is the zero address; when it is an ERC-20 token whose
\* symbol and decimals are read, totalCost is the fee alone and the quote
\* carries ERC-20 details, allowance and balance being absent, not zero,
\* when no recipient is known.
C27_ManifoldTotalCost ==
  (/\ call.fn = "fetchPriceData"
   /\ call.contractInfo.provider = "manifold"
   /\ call.rpc.mintFee # None
   /\ ValidClaimRead(call.params, call.rpc) # None) =>
    LET claim == Get(ValidClaimRead(call.params, call.rpc))
        fee == Get(call.rpc.mintFee)
        quote == call.result.quote
    IN /\ claim.erc20 = ZeroAddress =>
            /\ quote.totalCost = fee + claim.cost
            /\ quote.erc20Details = None
       /\ (claim.erc20 # ZeroAddress /\ call.rpc.erc20Meta) =>
            /\ quote.totalCost = fee
            /\ quote.erc20Details # None
            /\ Get(quote.erc20Details).address = claim.erc20
            /\ (call.params.recipient = None) <=> (Get(quote.erc20Details).allowance = None)
            /\ (call.params.recipient = None) <=> (Get(quote.erc20Details).balance = None)

C27_Witness ==
  /\ call.fn = "fetchPriceData"
  /\ call.contractInfo.provider = "manifold"
  /\ call.params.instanceId = Some("1")
  /\ call.params.recipient = None
  /\ call.rpc.mintFee = Some(1)
  /\ call.rpc.claim # None
  /\ Get(call.rpc.claim).erc20 = TokenAddress
  /\ call.result.quote.totalCost = 1
  /\ call.result.quote.erc20Details # None
  /\ Get(call.result.quote.erc20Details).allowance = None

\* C28: fetchPriceData leaves its inputs unchanged: after the call the
\* ContractInfo passed in has the claim and claimCondition it had before and
\* the MintParams has the instanceId it had before.
C28_InputsUnchanged ==
  call.fn = "fetchPriceData" =>
    /\ call.result.contractInfo.claim = call.contractInfo.claim
    /\ call.result.contractInfo.claimCondition = call.contractInfo.claimCondition
    /\ call.result.params.instanceId = call.params.instanceId

\* C29: under every sequence of actions from initialState, whenever step is
\* "waiting" a transaction hash is recorded and txType is "approval" or
\* "mint".
C29_WaitingHasTransaction ==
  state.step = "waiting" =>
    /\ IsSome(state.txHash)
    /\ state.txType \in {"approval", "mint"}

C29_Witness ==
  /\ state.step = "waiting"
  /\ last.type = "TX_SUCCESS"
  /\ prev.step = "waiting"
  /\ state.txType = "approval"
  /\ state.txHash = Some([kind |-> "approval", n |-> 0])
  /\ IsSome(state.priceData.erc20Details)

\* C30: in every reachable state of the flow with step "sheet" the ERC-20
\* needsApproval flag is not true.
C30_SheetNeverNeedsApproval ==
  state.step = "sheet" =>
    (IsSome(erc20DetailsOf(state)) => Get(erc20DetailsOf(state)).needsApproval # Some(TRUE))

====
